---- MODULE Spec2Model ----
(***************************************************************************)
(* A model of the audio render core of the spatial audio server            *)
(* (src/lib/audio/output.rs): the audio-thread Model, its entity lifecycle *)
(* operations and the render function.                                     *)
(*                                                                         *)
(* Numbers.  Samples, gains, volumes and detector readings are f32/f64 in  *)
(* the source; here they are small integers (fixed point), and a division  *)
(* is the integer division.  The frame counter is a u64 in the source; it  *)
(* is kept modulo FrameCountModulus here so that its wrap-around is        *)
(* reachable.                                                              *)
(*                                                                         *)
(* Collaborators.  Sound, Signal, Speaker, EnvDetector, FftDetector, the   *)
(* DBAP solver and the installation list are defined outside the render    *)
(* core; what the core uses of them is modelled from the specification.    *)
(***************************************************************************)
EXTENDS Integers, Sequences, FiniteSets, TLC

(* ------------------------------ bounds --------------------------------- *)

\* The largest number of frames of a device buffer handed to render.
MaxFrames == 2
\* The largest length, in frames, of a finite signal handed to insert_sound.
MaxSignalFrames == 3
\* The frame counter is kept modulo this number (2^64 in the source).
FrameCountModulus == 4
\* The capacity of the bounded channel toward the GUI.
GuiCapacity == 2
\* The number of frames rendered in a run that studies the mixing.
MixFrames == 1
\* The number of frames rendered in a run that studies the speaker analysis.
AnalysisFrames == 1
\* The number of frames rendered in a run that studies the consumers.
ChannelsFrames == 2
\* The number of frames rendered in a run that studies insertion and removal.
EntityFrames == 1
\* The number of frames rendered in a run that studies paused, muted and
\* soloed sounds.
GateFrames == 2
\* The number of frames rendered in a run that studies the messages to the
\* OSC output thread.
ReportFrames == 2
\* The number of frames rendered in a run that studies the silent buffer.
SilenceFrames == 2

(* --------------------------- small helpers ----------------------------- *)

Abs(x) == IF x < 0 THEN -x ELSE x

Max(a, b) == IF a >= b THEN a ELSE b

Min(a, b) == IF a <= b THEN a ELSE b

\* Option<T>: None is the empty sequence, Some(x) the one-element sequence.
None == << >>

Some(x) == << x >>

IsSome(o) == Len(o) = 1

RECURSIVE SumSeq(_)
SumSeq(s) == IF s = << >> THEN 0 ELSE Head(s) + SumSeq(Tail(s))

\* Every order in which the elements of a finite set can be visited.
Orders(S) ==
    { s \in [1..Cardinality(S) -> S] : \A i, j \in 1..Cardinality(S) : s[i] = s[j] => i = j }

\* The visit of a set of numbers in increasing order.
RECURSIVE Ascending(_)
Ascending(S) ==
    IF S = {} THEN << >>
    ELSE LET m == CHOOSE x \in S : \A y \in S : x <= y
         IN  << m >> \o Ascending(S \ {m})

(* ------------------------- the entity universe ------------------------- *)

SoundIds == {1, 2}

SourceIds == {1, 2}

SpeakerIds == {1, 2}

\* installation::ALL, the keys of installation_analyses.
Installations == {1, 2}

\* The values a signal's samples take (a signal yields one constant value).
Amps == {-1, 1}

(* ----------------------- collaborator: detectors ----------------------- *)

\* EnvDetector::new(): no sample seen.
EnvDetectorNew == [rms |-> 0, peak |-> 0]

\* EnvDetector::next(sample): the running RMS follows the magnitude of the
\* input (here at once) and the running peak is the largest magnitude seen.
EnvDetectorNext(d, sample) ==
    [rms |-> Abs(sample), peak |-> Max(d.peak, Abs(sample))]

\* EnvDetector::current(): (rms, peak), without resetting.
EnvDetectorCurrent(d) == << d.rms, d.peak >>

\* The length of the rolling window of an FftDetector (FFT_WINDOW_LEN).
FftWindowLen == 2

\* FftDetector::new(): a window of silence.
FftDetectorNew == [i \in 1..FftWindowLen |-> 0]

\* FftDetector::push(sample): the window shifts by one sample.
FftDetectorPush(w, sample) == Tail(w) \o << sample >>

\* calc_fft followed by the band summary (fft::lmh / fft::mel_bins): one
\* squared amplitude for the window.
FftAmplitude2(w) == SumSeq([i \in 1..Len(w) |-> w[i] * w[i]])

\* amp_2.sqrt() / (FFT_WINDOW_LEN / 2): the integer square root of the
\* squared amplitude, normalised by half the window length.
Sqrt(x) == CHOOSE r \in 0..x : r * r <= x /\ (r + 1) * (r + 1) > x

BandAmplitude(amp_2) == Sqrt(amp_2) \div (FftWindowLen \div 2)

(* ------------------------ collaborator: DBAP --------------------------- *)

\* DISTANCE_BLUR: added to the squared distance, so that it is never zero.
DistanceBlur == 1

\* dbap::blurred_distance_2 of two points of the line.
BlurredDistance2(a, b) == (a - b) * (a - b) + DistanceBlur

\* speaker::dbap_weight: 1 when the sound and the speaker share an
\* installation, 0 when they share none.
DbapWeight(sound_installations, speaker_installations) ==
    IF sound_installations \cap speaker_installations = {} THEN 0 ELSE 1

\* The gain that a lone speaker of full weight gets.
GainUnit == 2

\* The strength of one candidate before normalisation: it falls with the
\* distance, the faster the larger the rolloff, and grows with the weight.
DbapStrength(s, rolloff_db) == (s.weight * 20) \div (s.distance * rolloff_db)

\* dbap::SpeakerGains::new(speakers, rolloff_db): one gain per candidate,
\* in the order of the candidates, normalised over the candidates given.
SpeakerGains(dbap_speakers, rolloff_db) ==
    LET strengths == [k \in 1..Len(dbap_speakers) |-> DbapStrength(dbap_speakers[k], rolloff_db)]
        total == SumSeq(strengths)
    IN  [k \in 1..Len(dbap_speakers) |->
            IF total = 0 THEN 0 ELSE (strengths[k] * GainUnit) \div total]

(* ------------------- collaborator: Sound and Signal -------------------- *)

\* samples_left of a signal that never ends (remaining_frames() is None).
Infinite == -1

\* A signal of `frames` frames (Infinite for an endless one) of `channels`
\* channels whose samples all have the value `amp`; `continuous` marks a
\* WAV with Playback::Continuous, `length` is the length of the stream in
\* samples.
Signal(frames, channels, amp, continuous) ==
    [samples_left |-> IF frames = Infinite THEN Infinite ELSE frames * channels,
     length |-> IF frames = Infinite THEN Infinite ELSE frames * channels,
     channels |-> channels,
     amp |-> amp,
     continuous |-> continuous]

\* Signal::remaining_frames(): None for an endless signal.
RemainingFrames(signal) ==
    IF signal.samples_left = Infinite THEN None
    ELSE Some(signal.samples_left \div signal.channels)

\* The number of samples that signal.samples().take(num_samples) yields.
SamplesYielded(signal, num_samples) ==
    IF signal.samples_left = Infinite THEN num_samples
    ELSE Min(num_samples, signal.samples_left)

\* A mutation of SignalAdvance: taking samples leaves the signal where it
\* was.
SignalHeld(signal, yielded) == signal

\* The signal after `yielded` samples were taken from it.
SignalAdvance(signal, yielded) ==
    IF signal.samples_left = Infinite THEN signal
    ELSE [signal EXCEPT !.samples_left = @ - yielded]

\* samples.seek(frame): the stream is positioned at `frame`, or at its end
\* when it is shorter.
SignalSeek(signal, frame) ==
    IF signal.samples_left = Infinite THEN signal
    ELSE [signal EXCEPT !.samples_left = Max(0, signal.length - frame * signal.channels)]

\* A Sound as the collaborators hand it over.
Sound(source_id, channels, muted, playing, installations, position, signal) ==
    [source_id |-> source_id,
     channels |-> channels,
     volume |-> 1,
     muted |-> muted,
     playing |-> playing,
     installations |-> installations,
     position |-> position,
     signal |-> signal]

\* The spread of the channels of a multi-channel sound around its position.
ChannelSpread == 1

\* channel_point: the position itself for a one-channel sound; otherwise the
\* channels lie around the position at the spread radius (on the line: the
\* first half on one side, the second half on the other).
channel_point(sound_point, channel_index, total_channels, spread) ==
    IF total_channels = 1 THEN sound_point
    ELSE IF 2 * channel_index < total_channels THEN sound_point + spread
    ELSE sound_point - spread

(* --------------------- ActiveSound, ActiveSpeaker ---------------------- *)

\* ActiveSound::new(sound): one fresh detector per channel, and the total
\* duration captured from the signal.
ActiveSoundNew(sound) ==
    [sound |-> sound,
     channel_detectors |-> [k \in 1..sound.channels |-> EnvDetectorNew],
     total_duration_frames |-> RemainingFrames(sound.signal)]

\* ActiveSound::normalised_progress(): Some(current_frame / total), kept as
\* the pair of the two numbers, when the signal is finite.
normalised_progress(active) ==
    LET remaining_duration == RemainingFrames(active.sound.signal)
        total_duration == active.total_duration_frames
    IN  IF IsSome(remaining_duration) /\ IsSome(total_duration)
        THEN Some(<< total_duration[1] - remaining_duration[1], total_duration[1] >>)
        ELSE None

\* A Speaker as the collaborators hand it over.
Speaker(channel, point, installations) ==
    [channel |-> channel, point |-> point, installations |-> installations]

(* --------------------------- the channels ------------------------------ *)

\* The three outgoing channels: the number of messages queued in the bounded
\* channel toward the GUI, whether each receiver is still there, the
\* messages the current operation attempted to send on each channel, and whether
\* one of them was dropped (1) or all were delivered (0).
ChannelsNew ==
    [gui_len |-> 0,
     gui_connected |-> TRUE,
     osc_connected |-> TRUE,
     soundscape_connected |-> TRUE,
     gui_log |-> << >>,
     osc_log |-> << >>,
     soundscape_log |-> << >>,
     dropped |-> 0]

\* The channels at the start of an operation: nothing attempted yet.
ClearLogs(ch) ==
    [ch EXCEPT !.gui_log = << >>, !.osc_log = << >>, !.soundscape_log = << >>,
               !.dropped = 0]

\* gui_audio_monitor_msg_tx.try_send(msg).ok(): the message is queued when
\* the receiver is there and the queue has room, and dropped otherwise; the
\* caller never waits and never sees the outcome.
GuiTrySend(ch, msg) ==
    LET delivered == ch.gui_connected /\ ch.gui_len < GuiCapacity
    IN  [ch EXCEPT !.gui_log = Append(@, msg),
                   !.gui_len = IF delivered THEN @ + 1 ELSE @,
                   !.dropped = IF delivered THEN @ ELSE 1]

\* osc_output_msg_tx.send(msg).ok(): an unbounded channel; the message is
\* dropped when the receiver is gone.
OscSend(ch, msg) ==
    [ch EXCEPT !.osc_log = Append(@, msg),
               !.dropped = IF ch.osc_connected THEN @ ELSE 1]

\* soundscape_tx.send(update).ok(): an unbounded channel; the update is
\* dropped when the receiver is gone.
SoundscapeSend(ch, msg) ==
    [ch EXCEPT !.soundscape_log = Append(@, msg),
               !.dropped = IF ch.soundscape_connected THEN @ ELSE 1]

(* ------------------------------ the Model ------------------------------ *)

\* DEFAULT_MASTER_VOLUME and DEFAULT_DBAP_ROLLOFF_DB.
DefaultMasterVolume == 1

DefaultDbapRolloffDb == 1

\* A map without the key `id`.
MapRemove(map, id) == [k \in DOMAIN map \ {id} |-> map[k]]

\* A map with `id` bound to `value`.
MapInsert(map, id, value) ==
    [k \in DOMAIN map \cup {id} |-> IF k = id THEN value ELSE map[k]]

\* The empty map.
EmptyMap == [k \in {} |-> 0]

\* Model::new: no sound, no speaker, nothing soloed, the frame count at 0,
\* the scratch lists empty.
ModelNew ==
    [frame_count |-> 0,
     master_volume |-> DefaultMasterVolume,
     dbap_rolloff_db |-> DefaultDbapRolloffDb,
     soloed |-> {},
     sounds |-> EmptyMap,
     speakers |-> EmptyMap,
     exhausted_sounds |-> << >>,
     installation_analyses |-> [inst \in Installations |-> << >>]]

(* ---------------------- entity lifecycle operations -------------------- *)
\* Each operation maps the model and the channels to the model and the
\* channels after it, and its return value.

\* A mutation of insert_speaker: the GUI is told of a speaker only when its
\* id is new.
insert_speaker_quiet_on_replace(m, ch, id, speaker) ==
    LET present == id \in DOMAIN m.speakers
        env_detector == IF present THEN m.speakers[id].env_detector ELSE EnvDetectorNew
        fft_detector == IF present THEN m.speakers[id].fft_detector ELSE FftDetectorNew
        active == [speaker |-> speaker, env_detector |-> env_detector, fft_detector |-> fft_detector]
        msg == [kind |-> "SpeakerAdd", id |-> id]
    IN  [model |-> [m EXCEPT !.speakers = MapInsert(MapRemove(@, id), id, active)],
         chans |-> IF present THEN ch ELSE GuiTrySend(ch, msg),
         ret |-> IF present THEN Some(m.speakers[id].speaker) ELSE None]

\* A mutation of insert_speaker: the detectors start afresh with every
\* insertion.
insert_speaker_reset(m, ch, id, speaker) ==
    LET present == id \in DOMAIN m.speakers
        active == [speaker |-> speaker, env_detector |-> EnvDetectorNew,
                   fft_detector |-> FftDetectorNew]
        msg == [kind |-> "SpeakerAdd", id |-> id]
    IN  [model |-> [m EXCEPT !.speakers = MapInsert(MapRemove(@, id), id, active)],
         chans |-> GuiTrySend(ch, msg),
         ret |-> IF present THEN Some(m.speakers[id].speaker) ELSE None]

\* Model::insert_speaker
insert_speaker(m, ch, id, speaker) ==
    LET present == id \in DOMAIN m.speakers
        env_detector == IF present THEN m.speakers[id].env_detector ELSE EnvDetectorNew
        fft_detector == IF present THEN m.speakers[id].fft_detector ELSE FftDetectorNew
        old_speaker == IF present THEN Some(m.speakers[id].speaker) ELSE None
        active == [speaker |-> speaker, env_detector |-> env_detector, fft_detector |-> fft_detector]
        msg == [kind |-> "SpeakerAdd", id |-> id]
    IN  [model |-> [m EXCEPT !.speakers = MapInsert(MapRemove(@, id), id, active)],
         chans |-> GuiTrySend(ch, msg),
         ret |-> old_speaker]

\* A mutation of remove_speaker: the speaker is reported and announced as
\* removed but stays in the model.
remove_speaker_kept(m, ch, id) ==
    LET present == id \in DOMAIN m.speakers
        msg == [kind |-> "SpeakerRemove", id |-> id]
    IN  [model |-> m,
         chans |-> IF present THEN GuiTrySend(ch, msg) ELSE ch,
         ret |-> IF present THEN Some(m.speakers[id].speaker) ELSE None]

\* Model::remove_speaker
remove_speaker(m, ch, id) ==
    LET present == id \in DOMAIN m.speakers
        msg == [kind |-> "SpeakerRemove", id |-> id]
    IN  [model |-> [m EXCEPT !.speakers = MapRemove(@, id)],
         chans |-> IF present THEN GuiTrySend(ch, msg) ELSE ch,
         ret |-> IF present THEN Some(m.speakers[id].speaker) ELSE None]

\* A mutation of insert_speaker_installation: the speaker's detectors start
\* afresh when its installations change.
insert_speaker_installation_reset(m, ch, id, inst) ==
    IF id \in DOMAIN m.speakers
    THEN [model |-> [m EXCEPT !.speakers[id].speaker.installations = @ \cup {inst},
                              !.speakers[id].env_detector = EnvDetectorNew,
                              !.speakers[id].fft_detector = FftDetectorNew],
          chans |-> ch,
          ret |-> inst \notin m.speakers[id].speaker.installations]
    ELSE [model |-> m, chans |-> ch, ret |-> FALSE]

\* Model::insert_speaker_installation
insert_speaker_installation(m, ch, id, inst) ==
    IF id \in DOMAIN m.speakers
    THEN [model |-> [m EXCEPT !.speakers[id].speaker.installations = @ \cup {inst}],
          chans |-> ch,
          ret |-> inst \notin m.speakers[id].speaker.installations]
    ELSE [model |-> m, chans |-> ch, ret |-> FALSE]

\* Model::remove_speaker_installation
remove_speaker_installation(m, ch, id, inst) ==
    IF id \in DOMAIN m.speakers
    THEN [model |-> [m EXCEPT !.speakers[id].speaker.installations = @ \ {inst}],
          chans |-> ch,
          ret |-> inst \in m.speakers[id].speaker.installations]
    ELSE [model |-> m, chans |-> ch, ret |-> FALSE]

\* The fields of a sound that the Start and Update messages carry.
SoundMessage(kind, id, active) ==
    [kind |-> kind,
     id |-> id,
     source_id |-> active.sound.source_id,
     position |-> active.sound.position,
     channels |-> active.sound.channels,
     normalised_progress |-> normalised_progress(active)]

\* Model::insert_sound
insert_sound(m, ch, id, sound) ==
    LET msg == SoundMessage("Start", id, sound)
    IN  [model |-> [m EXCEPT !.sounds = MapInsert(@, id, sound)],
         chans |-> GuiTrySend(ch, msg),
         ret |-> IF id \in DOMAIN m.sounds THEN Some(m.sounds[id]) ELSE None]

\* The number of positions the mutation "nudge" steps through.
NudgePositions == 3

\* The mutations that update_sound and update_sounds_with_source apply.
\* "nudge" is one whose repetition shows: one, two and no application all
\* differ.
ApplyMutator(mutator, sound) ==
    CASE mutator = "mute" -> [sound EXCEPT !.muted = TRUE]
      [] mutator = "unmute" -> [sound EXCEPT !.muted = FALSE]
      [] mutator = "pause" -> [sound EXCEPT !.playing = FALSE]
      [] mutator = "play" -> [sound EXCEPT !.playing = TRUE]
      [] mutator = "move" -> [sound EXCEPT !.position = 1 - @]
      [] mutator = "nudge" -> [sound EXCEPT !.position = (@ + 1) % NudgePositions]
      [] mutator = "one_channel" -> [sound EXCEPT !.channels = 1]
      [] mutator = "two_channels" -> [sound EXCEPT !.channels = 2]

\* Model::update_sound: the closure `update` is the mutation named `mutator`.
update_sound(m, ch, id, mutator) ==
    IF id \in DOMAIN m.sounds
    THEN [model |-> [m EXCEPT !.sounds[id].sound = ApplyMutator(mutator, @)], chans |-> ch, ret |-> TRUE]
    ELSE [model |-> m, chans |-> ch, ret |-> FALSE]

\* A mutation of update_sounds_with_source: the closure is applied to every
\* sound, whatever its source.
update_sounds_with_source_all(m, ch, source_id, mutator) ==
    [model |-> [m EXCEPT !.sounds =
                    [id \in DOMAIN m.sounds |->
                        [m.sounds[id] EXCEPT !.sound = ApplyMutator(mutator, @)]]],
     chans |-> ch,
     ret |-> Cardinality(DOMAIN m.sounds)]

\* Model::update_sounds_with_source
update_sounds_with_source(m, ch, source_id, mutator) ==
    LET hit == { id \in DOMAIN m.sounds : m.sounds[id].sound.source_id = source_id }
    IN  [model |-> [m EXCEPT !.sounds =
                        [id \in DOMAIN m.sounds |->
                            IF id \in hit THEN [m.sounds[id] EXCEPT !.sound = ApplyMutator(mutator, @)]
                            ELSE m.sounds[id]]],
         chans |-> ch,
         ret |-> Cardinality(hit)]

\* The End message of a sound, carrying the sound as it was removed.
EndMessage(id, active) == [kind |-> "End", id |-> id, sound |-> active]

\* The update sent to the soundscape thread: remove_active_sound(id).
RemoveActiveSound(id) == [kind |-> "remove_active_sound", id |-> id]

\* A mutation of remove_sound: the End message and the soundscape update are
\* sent whether or not the sound was there.
remove_sound_always_notifies(m, ch, id) ==
    LET present == id \in DOMAIN m.sounds
        msg == [kind |-> "End", id |-> id, sound |-> IF present THEN m.sounds[id] ELSE None]
    IN  [model |-> [m EXCEPT !.sounds = MapRemove(@, id)],
         chans |-> SoundscapeSend(GuiTrySend(ch, msg), RemoveActiveSound(id)),
         ret |-> present]

\* A mutation of remove_sound: the sound is kept when its End message could
\* not be handed to the GUI.
remove_sound_if_delivered(m, ch, id) ==
    IF id \in DOMAIN m.sounds
    THEN LET sent == SoundscapeSend(GuiTrySend(ch, EndMessage(id, m.sounds[id])),
                                    RemoveActiveSound(id))
         IN  [model |-> IF sent.gui_len > ch.gui_len
                        THEN [m EXCEPT !.sounds = MapRemove(@, id)] ELSE m,
              chans |-> sent,
              ret |-> TRUE]
    ELSE [model |-> m, chans |-> ch, ret |-> FALSE]

\* Model::remove_sound
remove_sound(m, ch, id) ==
    IF id \in DOMAIN m.sounds
    THEN [model |-> [m EXCEPT !.sounds = MapRemove(@, id)],
          chans |-> SoundscapeSend(GuiTrySend(ch, EndMessage(id, m.sounds[id])),
                                   RemoveActiveSound(id)),
          ret |-> TRUE]
    ELSE [model |-> m, chans |-> ch, ret |-> FALSE]

(* ------------------------------- render -------------------------------- *)

\* The buffer as the audio device hands it to render: n_frames frames of
\* n_channels samples, buffer[f][c], every one holding `value`.
FilledBuffer(n_frames, n_channels, value) ==
    [f \in 0..(n_frames - 1) |-> [c \in 0..(n_channels - 1) |-> value]]

\* A mutation of Silence: the buffer is mixed onto as it came.
SilenceSkipped(buffer) == buffer

\* `for sample in buffer.iter_mut() { *sample = 0.0; }`
Silence(buffer) == [f \in DOMAIN buffer |-> [c \in DOMAIN buffer[f] |-> 0]]

\* A mutation of IsPlaying: a paused sound is rendered like a playing one.
IsPlayingAlways(sound) == TRUE

\* sound.shared.is_playing()
IsPlaying(sound) == sound.playing

\* A mutation of SeekFails: a failed seek is not noticed.
SeekFailureIgnored(sound, sound_id, seek_fail) == FALSE

\* `if let Err(err) = samples.seek(*frame_count)`, for a WAV with
\* Playback::Continuous: whether the seek of this call fails.
SeekFails(sound, sound_id, seek_fail) == sound.signal.continuous /\ sound_id \in seek_fail

\* A mutation of AnalysedBuffer: the speakers read the buffer after the
\* master volume was applied.
AnalysedBufferScaled(buffer, master_volume) ==
    [f \in DOMAIN buffer |-> [c \in DOMAIN buffer[f] |-> buffer[f][c] * master_volume]]

\* The buffer that the loop over the speakers reads: the mixed buffer, before
\* the master volume is applied to it.
AnalysedBuffer(buffer, master_volume) == buffer

\* A silenced buffer of n_frames frames of n_channels samples: buffer[f][c].
SilentBuffer(n_frames, n_channels) ==
    [f \in 0..(n_frames - 1) |-> [c \in 0..(n_channels - 1) |-> 0]]

\* speakers.values().find(|s| s.speaker.channel == channel): the first
\* speaker, in the order the map is visited, that is assigned to `channel`.
FindSpeaker(speakers, sp_order, channel) ==
    LET hits == { k \in 1..Len(sp_order) : speakers[sp_order[k]].speaker.channel = channel }
    IN  IF hits = {} THEN None
        ELSE Some(speakers[sp_order[CHOOSE k \in hits : \A j \in hits : k <= j]])

\* The dbap_speakers list built for one sound channel: one entry, pushed in
\* the order of the device channels, for every device channel from `channel`
\* on that has a speaker.
RECURSIVE DbapSpeakers(_, _, _, _, _, _)
DbapSpeakers(speakers, sp_order, sound, point, channel, n_channels) ==
    IF channel >= n_channels THEN << >>
    ELSE LET found == FindSpeaker(speakers, sp_order, channel)
             rest == DbapSpeakers(speakers, sp_order, sound, point, channel + 1, n_channels)
         IN  IF IsSome(found)
             THEN << [distance |-> BlurredDistance2(point, found[1].speaker.point),
                      weight |-> DbapWeight(sound.installations, found[1].speaker.installations)] >>
                  \o rest
             ELSE rest

\* The gain by which render scales what sound channel `i` adds to each device
\* channel: the gains are enumerated, and the gain at index `channel` of the
\* list is added to frame[channel] when the frame has that channel.
MixGains(speakers, sp_order, sound, i, n_channels, rolloff_db) ==
    LET point == channel_point(sound.position, i, sound.channels, ChannelSpread)
        dbap_speakers == DbapSpeakers(speakers, sp_order, sound, point, 0, n_channels)
        dbap_speaker_gains == SpeakerGains(dbap_speakers, rolloff_db)
    IN  [channel \in 0..(n_channels - 1) |->
            IF channel < Len(dbap_speaker_gains) THEN dbap_speaker_gains[channel + 1] ELSE 0]

\* A detector after `n` samples of the same value.
RECURSIVE EnvFeed(_, _, _)
EnvFeed(d, sample, n) == IF n = 0 THEN d ELSE EnvFeed(EnvDetectorNext(d, sample), sample, n - 1)

\* The sends of the UpdateChannel messages, one per channel detector.
RECURSIVE SendChannelUpdates(_, _, _, _)
SendChannelUpdates(ch, sound_id, channel_detectors, index) ==
    IF index >= Len(channel_detectors) THEN ch
    ELSE LET current == EnvDetectorCurrent(channel_detectors[index + 1])
             msg == [kind |-> "UpdateChannel", id |-> sound_id, index |-> index,
                     rms |-> current[1], peak |-> current[2]]
         IN  SendChannelUpdates(GuiTrySend(ch, msg), sound_id, channel_detectors, index + 1)

\* A mutation of ExhaustedSilently: a sound that is not heard is never
\* recorded as exhausted.
ExhaustedSilentlyNever(samples_yielded, num_samples) == FALSE

\* `if samples_yielded < num_samples`: a muted or solo-excluded sound is
\* exhausted when its signal yielded fewer samples than were requested.
ExhaustedSilently(samples_yielded, num_samples) == samples_yielded < num_samples

\* A mutation of Exhausted: a sound counts as exhausted as soon as nothing is
\* left after the pull.
ExhaustedWhenFilled(samples_written, num_samples) == samples_written <= num_samples

\* `if samples_written < num_samples`: an audible sound is exhausted when
\* fewer samples were written than were requested.
Exhausted(samples_written, num_samples) == samples_written < num_samples

\* The body of render's loop over the sounds, for one sound.  `st` holds what
\* the loop changes: the sounds, the buffer, the exhausted list, the channels
\* and whether the call has aborted; st.mix records, for every sound channel
\* that was mixed, its point, the sound's installations and the gain that
\* scaled what it added to each device channel.
RenderSound(st, sound_id, m, n_frames, n_channels, sp_order, seek_fail) ==
    LET active == st.sounds[sound_id]
        sound == active.sound
        st1 == [st EXCEPT !.chans = GuiTrySend(@, SoundMessage("Update", sound_id, active))]
        num_samples == n_frames * sound.channels
        excluded == sound.muted \/ (m.soloed # {} /\ sound.source_id \notin m.soloed)
        \* the audible path
        signal == IF sound.signal.continuous THEN SignalSeek(sound.signal, m.frame_count)
                  ELSE sound.signal
        samples_written == SamplesYielded(signal, num_samples)
        out_of_range == \E k \in 0..(samples_written - 1) :
                            (k % sound.channels) >= Len(active.channel_detectors)
        unmixed_samples == [k \in 0..(num_samples - 1) |->
                               IF k < samples_written THEN signal.amp ELSE 0]
        channel_detectors ==
            [j \in 1..Len(active.channel_detectors) |->
                EnvFeed(active.channel_detectors[j], signal.amp,
                        Cardinality({ k \in 0..(samples_written - 1) :
                                        (k % sound.channels) = j - 1 }))]
        gains == [i \in 0..(sound.channels - 1) |->
                     MixGains(m.speakers, sp_order, sound, i, n_channels, m.dbap_rolloff_db)]
        mixed == [f \in 0..(n_frames - 1) |-> [c \in 0..(n_channels - 1) |->
                     st.buffer[f][c]
                     + SumSeq([k \in 1..sound.channels |->
                                  unmixed_samples[(k - 1) + f * sound.channels]
                                  * gains[k - 1][c] * sound.volume])]]
    IN  IF st.aborted THEN st
        ELSE IF ~IsPlaying(sound) THEN st1
        ELSE IF excluded THEN
            LET samples_yielded == SamplesYielded(sound.signal, num_samples)
            IN  [st1 EXCEPT
                    !.sounds[sound_id].sound.signal = SignalAdvance(@, samples_yielded),
                    !.exhausted_sounds =
                        IF ExhaustedSilently(samples_yielded, num_samples)
                        THEN Append(@, sound_id) ELSE @]
        ELSE IF SeekFails(sound, sound_id, seek_fail) THEN st1
        ELSE IF out_of_range THEN [st1 EXCEPT !.aborted = TRUE]
        ELSE [st1 EXCEPT
                !.sounds[sound_id].sound.signal = SignalAdvance(signal, samples_written),
                !.sounds[sound_id].channel_detectors = channel_detectors,
                !.exhausted_sounds =
                    IF Exhausted(samples_written, num_samples) THEN Append(@, sound_id) ELSE @,
                !.chans = SendChannelUpdates(@, sound_id, channel_detectors, 0),
                !.buffer = mixed,
                !.mix = @ \o [k \in 1..sound.channels |->
                                 [id |-> sound_id,
                                  channel |-> k - 1,
                                  point |-> channel_point(sound.position, k - 1,
                                                          sound.channels, ChannelSpread),
                                  installations |-> sound.installations,
                                  gains |-> gains[k - 1]]]]

\* render's loop over the sounds.
RECURSIVE RenderSounds(_, _, _, _, _, _, _)
RenderSounds(st, order, m, n_frames, n_channels, sp_order, seek_fail) ==
    IF order = << >> THEN st
    ELSE RenderSounds(RenderSound(st, Head(order), m, n_frames, n_channels, sp_order, seek_fail),
                      Tail(order), m, n_frames, n_channels, sp_order, seek_fail)

\* A mutation of FeedSpeaker: feeding a speaker moves it.
FeedSpeakerMoved(active, buffer, channel_i, f, n_frames) ==
    [active EXCEPT !.speaker.point = @ + 1,
                   !.env_detector = EnvDetectorNext(@, buffer[0][channel_i])]

\* A mutation of FeedSpeaker: the speaker's detectors are not fed.
FeedSpeakerSkipped(active, buffer, channel_i, f, n_frames) == active

\* A speaker's detectors after the samples of device channel `channel_i`
\* of frames `f`.. of the buffer were fed into them.
RECURSIVE FeedSpeaker(_, _, _, _, _)
FeedSpeaker(active, buffer, channel_i, f, n_frames) ==
    IF f >= n_frames THEN active
    ELSE LET sample == buffer[f][channel_i]
         IN  FeedSpeaker([active EXCEPT !.env_detector = EnvDetectorNext(@, sample),
                                        !.fft_detector = FftDetectorPush(@, sample)],
                         buffer, channel_i, f + 1, n_frames)

\* A mutation of RenderSpeaker: a speaker whose channel is outside the buffer
\* is not fed, yet reported like the others.
RenderSpeakerReportsAll(st, id, buffer, n_frames, n_channels) ==
    LET channel_i == st.speakers[id].speaker.channel
        active == IF channel_i >= n_channels THEN st.speakers[id]
                  ELSE FeedSpeaker(st.speakers[id], buffer, channel_i, 0, n_frames)
        current == EnvDetectorCurrent(active.env_detector)
        rms == current[1]
        peak == current[2]
        band == BandAmplitude(FftAmplitude2(active.fft_detector))
        msg == [kind |-> "SpeakerUpdate", id |-> id, rms |-> rms, peak |-> peak]
        known == active.speaker.installations \cap DOMAIN st.installation_analyses
        analysis == [peak |-> peak, rms |-> rms, index |-> channel_i]
    IN  [st EXCEPT
            !.speakers[id] = active,
            !.chans = GuiTrySend(@, msg),
            !.sum_peak = @ + Cardinality(known) * peak,
            !.sum_rms = @ + Cardinality(known) * rms,
            !.sum_fft = @ + Cardinality(known) * band,
            !.installation_analyses =
                [inst \in DOMAIN @ |->
                    IF inst \in known THEN Append(@[inst], analysis) ELSE @[inst]]]

\* The body of render's loop over the speakers, for one speaker.  `st` holds
\* what the loop changes: the speakers, the per-installation analyses, the
\* running sums and the channels.
RenderSpeaker(st, id, buffer, n_frames, n_channels) ==
    LET channel_i == st.speakers[id].speaker.channel
        active == FeedSpeaker(st.speakers[id], buffer, channel_i, 0, n_frames)
        current == EnvDetectorCurrent(active.env_detector)
        rms == current[1]
        peak == current[2]
        band == BandAmplitude(FftAmplitude2(active.fft_detector))
        msg == [kind |-> "SpeakerUpdate", id |-> id, rms |-> rms, peak |-> peak]
        \* the installations of the speaker that installation_analyses knows
        known == active.speaker.installations \cap DOMAIN st.installation_analyses
        analysis == [peak |-> peak, rms |-> rms, index |-> channel_i]
    IN  IF channel_i >= n_channels THEN st
        ELSE [st EXCEPT
                !.speakers[id] = active,
                !.chans = GuiTrySend(@, msg),
                !.sum_peak = @ + Cardinality(known) * peak,
                !.sum_rms = @ + Cardinality(known) * rms,
                !.sum_fft = @ + Cardinality(known) * band,
                !.installation_analyses =
                    [inst \in DOMAIN @ |->
                        IF inst \in known THEN Append(@[inst], analysis) ELSE @[inst]]]

\* render's loop over the speakers.
RECURSIVE RenderSpeakers(_, _, _, _, _)
RenderSpeakers(st, sp_order, buffer, n_frames, n_channels) ==
    IF sp_order = << >> THEN st
    ELSE RenderSpeakers(RenderSpeaker(st, Head(sp_order), buffer, n_frames, n_channels),
                        Tail(sp_order), buffer, n_frames, n_channels)

\* A mutation of SortByIndex: the readings stay in the order in which the
\* speakers were visited.
SortSkipped(s) == s

\* speakers.sort_by(|a, b| a.index.cmp(&b.index)): a stable sort.
RECURSIVE SortByIndex(_)
SortByIndex(s) ==
    IF s = << >> THEN << >>
    ELSE LET least == CHOOSE k \in 1..Len(s) :
                          /\ \A j \in 1..Len(s) : s[k].index <= s[j].index
                          /\ \A j \in 1..(k - 1) : s[j].index > s[k].index
         IN  << s[least] >> \o SortByIndex(SubSeq(s, 1, least - 1) \o SubSeq(s, least + 1, Len(s)))

\* The message render sends to the OSC output thread for one installation:
\* the sums divided by the number of the installation's speakers, and the
\* speakers' readings in the order of their channels.
AudioMessage(installation, analyses, sum_peak, sum_rms, sum_fft) ==
    LET sorted == SortByIndex(analyses)
        len_f == Len(sorted)
    IN  [kind |-> "Audio",
         installation |-> installation,
         avg_peak |-> sum_peak \div len_f,
         avg_rms |-> sum_rms \div len_f,
         avg_fft |-> sum_fft \div len_f,
         speakers |-> [k \in 1..len_f |-> [rms |-> sorted[k].rms, peak |-> sorted[k].peak]]]

\* A mutation of SendAnalyses: the lists are sent but not drained.
RECURSIVE SendAnalysesKept(_, _)
SendAnalysesKept(st, insts) ==
    IF insts = << >> THEN st
    ELSE LET inst == Head(insts)
             analyses == st.installation_analyses[inst]
         IN  IF analyses = << >> THEN SendAnalysesKept(st, Tail(insts))
             ELSE SendAnalysesKept(
                      [st EXCEPT
                          !.chans = OscSend(@, AudioMessage(inst, analyses, st.sum_peak,
                                                            st.sum_rms, st.sum_fft))],
                      Tail(insts))

\* render's loop over installation_analyses: one message per installation
\* whose list is not empty; every list is drained.
RECURSIVE SendAnalyses(_, _)
SendAnalyses(st, insts) ==
    IF insts = << >> THEN st
    ELSE LET inst == Head(insts)
             analyses == st.installation_analyses[inst]
         IN  IF analyses = << >> THEN SendAnalyses(st, Tail(insts))
             ELSE SendAnalyses(
                      [st EXCEPT
                          !.chans = OscSend(@, AudioMessage(inst, analyses, st.sum_peak,
                                                            st.sum_rms, st.sum_fft)),
                          !.installation_analyses[inst] = << >>],
                      Tail(insts))

\* A mutation of RemoveExhausted: the End message and the soundscape update
\* of an exhausted sound are sent, but the sound stays in the model.
RECURSIVE RemoveExhaustedKept(_, _)
RemoveExhaustedKept(st, exhausted_sounds) ==
    IF exhausted_sounds = << >> \/ st.aborted THEN st
    ELSE LET sound_id == Head(exhausted_sounds)
         IN  IF sound_id \notin DOMAIN st.sounds THEN [st EXCEPT !.aborted = TRUE]
             ELSE RemoveExhaustedKept(
                      [st EXCEPT
                          !.chans = SoundscapeSend(
                                        GuiTrySend(@, EndMessage(sound_id, st.sounds[sound_id])),
                                        RemoveActiveSound(sound_id))],
                      Tail(exhausted_sounds))

\* render's loop over exhausted_sounds.drain(..): each sound is removed
\* (the unwrap aborts the call if it is not there), then its End message and
\* the soundscape update are sent.  `st` holds the sounds, the channels and
\* whether the call has aborted.
RECURSIVE RemoveExhausted(_, _)
RemoveExhausted(st, exhausted_sounds) ==
    IF exhausted_sounds = << >> \/ st.aborted THEN st
    ELSE LET sound_id == Head(exhausted_sounds)
         IN  IF sound_id \notin DOMAIN st.sounds THEN [st EXCEPT !.aborted = TRUE]
             ELSE RemoveExhausted(
                      [st EXCEPT
                          !.sounds = MapRemove(@, sound_id),
                          !.chans = SoundscapeSend(
                                        GuiTrySend(@, EndMessage(sound_id, st.sounds[sound_id])),
                                        RemoveActiveSound(sound_id))],
                      Tail(exhausted_sounds))

\* The buffer with every sample multiplied by the master volume.
ApplyMasterVolume(buffer, master_volume) ==
    [f \in DOMAIN buffer |-> [c \in DOMAIN buffer[f] |-> buffer[f][c] * master_volume]]

\* buffer.iter().fold(0.0, |peak, &s| s.max(peak))
MasterPeak(buffer) ==
    LET samples == { buffer[f][c] : f \in DOMAIN buffer, c \in DOMAIN buffer[0] }
    IN  CHOOSE p \in samples \cup {0} : \A s \in samples \cup {0} : s <= p

\* A mutation of StepFrameCount: the counter restarts with every buffer.
StepFrameCountReset(frame_count, n_frames) == n_frames % FrameCountModulus

\* *frame_count += buffer.len_frames() as u64
StepFrameCount(frame_count, n_frames) == (frame_count + n_frames) % FrameCountModulus

\* The render function: the model, the channels and the buffer after the
\* call, whether the call aborted (and then returned nothing), and what was
\* mixed.  `order` and `sp_order` are the orders in which the sounds map and
\* the speakers map are visited, `seek_fail` the sounds whose continuous
\* stream fails to seek in this call, `entry` what the samples of the buffer
\* hold when the call begins.
render(m, ch, n_frames, n_channels, order, sp_order, seek_fail, entry) ==
    LET s1 == RenderSounds(
                  [sounds |-> m.sounds,
                   buffer |-> Silence(FilledBuffer(n_frames, n_channels, entry)),
                   exhausted_sounds |-> m.exhausted_sounds,
                   chans |-> ch,
                   aborted |-> FALSE,
                   mix |-> << >>],
                  order, m, n_frames, n_channels, sp_order, seek_fail)
        s2 == RenderSpeakers(
                  [speakers |-> m.speakers,
                   installation_analyses |-> m.installation_analyses,
                   sum_peak |-> 0, sum_rms |-> 0, sum_fft |-> 0,
                   chans |-> s1.chans],
                  sp_order, AnalysedBuffer(s1.buffer, m.master_volume), n_frames, n_channels)
        s3 == SendAnalyses(s2, Ascending(DOMAIN s2.installation_analyses))
        s4 == RemoveExhausted([sounds |-> s1.sounds, chans |-> s3.chans, aborted |-> FALSE],
                              s1.exhausted_sounds)
        buffer == ApplyMasterVolume(s1.buffer, m.master_volume)
        peak == MasterPeak(buffer)
    IN  IF s1.aborted \/ s4.aborted
        THEN [model |-> m,
              chans |-> IF s1.aborted THEN s1.chans ELSE s4.chans,
              buffer |-> << >>,
              aborted |-> TRUE,
              mix |-> << >>]
        ELSE [model |-> [m EXCEPT !.frame_count = StepFrameCount(@, n_frames),
                                  !.sounds = s4.sounds,
                                  !.speakers = s3.speakers,
                                  !.exhausted_sounds = << >>,
                                  !.installation_analyses = s3.installation_analyses],
              chans |-> GuiTrySend(s4.chans, [kind |-> "Master", peak |-> peak]),
              buffer |-> buffer,
              aborted |-> FALSE,
              mix |-> s1.mix]

(* ----------------------- movement: BoundingBox ------------------------- *)
\* Coordinates are Metres, kept as integers; a point is [x, y].

\* BoundingBox::from_point
from_point(p) == [left |-> p.x, right |-> p.x, top |-> p.y, bottom |-> p.y]

\* A mutation of with_point: the box grows to the left and downward only.
with_point_low_only(self, p) ==
    [left |-> Min(p.x, self.left),
     right |-> self.right,
     bottom |-> Min(p.y, self.bottom),
     top |-> self.top]

\* BoundingBox::with_point
with_point(self, p) ==
    [left |-> Min(p.x, self.left),
     right |-> Max(p.x, self.right),
     bottom |-> Min(p.y, self.bottom),
     top |-> Max(p.y, self.top)]

\* `points.fold(init, BoundingBox::with_point)`
RECURSIVE FoldWithPoint(_, _)
FoldWithPoint(init, points) ==
    IF points = << >> THEN init
    ELSE FoldWithPoint(with_point(init, Head(points)), Tail(points))

\* BoundingBox::from_points
from_points(points) ==
    IF points = << >> THEN None
    ELSE Some(FoldWithPoint(from_point(Head(points)), Tail(points)))

(* ------------------- the GUI's soundscape editor ----------------------- *)

\* The largest group id (u64::MAX in the program); `checked_add(1)` on it
\* fails.
GroupIdMax == 3

GroupIds == 0..GroupIdMax

\* The name of a new group, and the names typed into the text box.
Unnamed == "<unnamed>"

TypedNames == {"a"}

\* The SoundscapeEditor built from what Stored::load returned: the stored
\* groups and next_group_id, nothing selected.  `panicked` tells whether the
\* GUI thread has panicked in `set`.
SoundscapeEditorNew(stored) ==
    [is_open |-> FALSE,
     groups |-> stored.groups,
     next_group_id |-> stored.next_group_id,
     selected |-> None,
     panicked |-> FALSE]

\* Stored::default()
StoredDefault == [groups |-> EmptyMap, next_group_id |-> 0]

\* A mutation of AddGroups: next_group_id is not stepped.
RECURSIVE AddGroupsWithoutStep(_, _)
AddGroupsWithoutStep(st, clicks) ==
    IF clicks = 0 \/ st.editor.panicked THEN st
    ELSE LET id == st.editor.next_group_id
         IN  AddGroupsWithoutStep(
                 [editor |-> [st.editor EXCEPT
                                 !.groups = MapInsert(@, id, Unnamed),
                                 !.selected = Some([id |-> id, name |-> Unnamed])],
                  added |-> Append(st.added, id)],
                 clicks - 1)

\* The clicks on the "+" button: each takes next_group_id as the id of a new
\* unnamed group, steps next_group_id (the `expect` panics when that would
\* overflow), inserts the group and selects it.  `st` holds the editor and
\* the ids added.
RECURSIVE AddGroups(_, _)
AddGroups(st, clicks) ==
    IF clicks = 0 \/ st.editor.panicked THEN st
    ELSE LET id == st.editor.next_group_id
         IN  IF id = GroupIdMax
             THEN [st EXCEPT !.editor.panicked = TRUE]
             ELSE AddGroups(
                      [editor |-> [st.editor EXCEPT
                                      !.next_group_id = id + 1,
                                      !.groups = MapInsert(@, id, Unnamed),
                                      !.selected = Some([id |-> id, name |-> Unnamed])],
                       added |-> Append(st.added, id)],
                      clicks - 1)

\* Event::Selection(idx): the group at the index of the list is selected,
\* with a copy of its name; `selection` is the id of that group, if there is
\* such an event.
SelectGroup(editor, selection) ==
    IF IsSome(selection)
    THEN [editor EXCEPT !.selected = Some([id |-> selection[1],
                                           name |-> editor.groups[selection[1]]])]
    ELSE editor

\* `if let Some(i) = maybe_remove_index`: the group is unselected if it is
\* the selected one, and removed from the map; `remove` is the id of the
\* group whose remove button was clicked, if one was.
RemoveGroup(editor, remove) ==
    IF IsSome(remove)
    THEN [editor EXCEPT
             !.selected = IF IsSome(@) /\ @[1].id = remove[1] THEN None ELSE @,
             !.groups = MapRemove(@, remove[1])]
    ELSE editor

\* The events of the text box of the selected group: Update(new_name) sets
\* the temporary name of the selection, Enter writes it to the group if the
\* map has it.
RECURSIVE TextEvents(_, _)
TextEvents(editor, events) ==
    IF events = << >> THEN editor
    ELSE LET event == Head(events)
             selected == editor.selected[1]
         IN  TextEvents(
                 IF event.kind = "Update"
                 THEN [editor EXCEPT !.selected = Some([selected EXCEPT !.name = event.name])]
                 ELSE IF selected.id \in DOMAIN editor.groups
                 THEN [editor EXCEPT !.groups = MapInsert(@, selected.id, selected.name)]
                 ELSE editor,
                 Tail(events))

\* soundscape_editor::set, one pass of the GUI over the editor.  Its inputs
\* are what the widgets report: `toggle` (the collapsible area was clicked),
\* `clicks` (on the "+" button), `selection` (the id of the listed group
\* that was selected, if one was), `remove` (the id of the listed group whose
\* remove button was clicked, if one was), `events` (of the text box).  The
\* area is laid out when the editor was open on entry.
\* Returns the editor, the ids added and the id removed.
set(editor, toggle, clicks, selection, remove, events) ==
    LET opened == [editor EXCEPT !.is_open = IF toggle THEN ~@ ELSE @]
        s1 == AddGroups([editor |-> opened, added |-> << >>], clicks)
        s2 == SelectGroup(s1.editor, selection)
        s3 == RemoveGroup(s2, remove)
        s4 == IF IsSome(s3.selected) THEN TextEvents(s3, events) ELSE s3
    IN  IF ~editor.is_open
        THEN [editor |-> opened, added |-> << >>, removed |-> None]
        ELSE IF s1.editor.panicked \/ s1.editor.groups = EmptyMap
        THEN [editor |-> s1.editor, added |-> s1.added, removed |-> None]
        ELSE [editor |-> s4, added |-> s1.added, removed |-> remove]

(* ------------------------------ the state ------------------------------ *)

VARIABLES
    model,     \* the audio thread's Model
    chans,     \* the outgoing channels and what the last operation sent
    buffer,    \* the buffer the last operation returned, if it was a render call
    last_op,   \* the last operation: its name, arguments and return value
    aborted,   \* whether a render call has aborted the audio thread
    points,    \* the points handed to BoundingBox::from_points
    soundscape_editor   \* the GUI's SoundscapeEditor

vars == << model, chans, buffer, last_op, aborted, points, soundscape_editor >>

Init ==
    /\ model = ModelNew
    /\ chans = ChannelsNew
    /\ buffer = << >>
    /\ last_op = [name |-> "new"]
    /\ aborted = FALSE
    /\ points = << >>
    /\ soundscape_editor = SoundscapeEditorNew(StoredDefault)

(* ----------------------------- the actions ----------------------------- *)

InsertSpeaker(id, speaker) ==
    LET r == insert_speaker(model, ClearLogs(chans), id, speaker)
    IN  /\ ~aborted
        /\ model' = r.model
        /\ chans' = r.chans
        /\ last_op' = [name |-> "insert_speaker", id |-> id, speaker |-> speaker, ret |-> r.ret]
        /\ buffer' = << >>
        /\ UNCHANGED << aborted, points, soundscape_editor >>

RemoveSpeaker(id) ==
    LET r == remove_speaker(model, ClearLogs(chans), id)
    IN  /\ ~aborted
        /\ model' = r.model
        /\ chans' = r.chans
        /\ last_op' = [name |-> "remove_speaker", id |-> id, ret |-> r.ret]
        /\ buffer' = << >>
        /\ UNCHANGED << aborted, points, soundscape_editor >>

InsertSpeakerInstallation(id, inst) ==
    LET r == insert_speaker_installation(model, ClearLogs(chans), id, inst)
    IN  /\ ~aborted
        /\ model' = r.model
        /\ chans' = r.chans
        /\ last_op' = [name |-> "insert_speaker_installation", id |-> id, inst |-> inst,
                       ret |-> r.ret]
        /\ buffer' = << >>
        /\ UNCHANGED << aborted, points, soundscape_editor >>

RemoveSpeakerInstallation(id, inst) ==
    LET r == remove_speaker_installation(model, ClearLogs(chans), id, inst)
    IN  /\ ~aborted
        /\ model' = r.model
        /\ chans' = r.chans
        /\ last_op' = [name |-> "remove_speaker_installation", id |-> id, inst |-> inst,
                       ret |-> r.ret]
        /\ buffer' = << >>
        /\ UNCHANGED << aborted, points, soundscape_editor >>

InsertSound(id, sound) ==
    LET r == insert_sound(model, ClearLogs(chans), id, ActiveSoundNew(sound))
    IN  /\ ~aborted
        /\ model' = r.model
        /\ chans' = r.chans
        /\ last_op' = [name |-> "insert_sound", id |-> id, ret |-> r.ret]
        /\ buffer' = << >>
        /\ UNCHANGED << aborted, points, soundscape_editor >>

UpdateSound(id, mutator) ==
    LET r == update_sound(model, ClearLogs(chans), id, mutator)
    IN  /\ ~aborted
        /\ model' = r.model
        /\ chans' = r.chans
        /\ last_op' = [name |-> "update_sound", id |-> id, mutator |-> mutator, ret |-> r.ret]
        /\ buffer' = << >>
        /\ UNCHANGED << aborted, points, soundscape_editor >>

UpdateSoundsWithSource(source_id, mutator) ==
    LET r == update_sounds_with_source(model, ClearLogs(chans), source_id, mutator)
    IN  /\ ~aborted
        /\ model' = r.model
        /\ chans' = r.chans
        /\ last_op' = [name |-> "update_sounds_with_source", source_id |-> source_id,
                       mutator |-> mutator, ret |-> r.ret]
        /\ buffer' = << >>
        /\ UNCHANGED << aborted, points, soundscape_editor >>

RemoveSound(id) ==
    LET r == remove_sound(model, ClearLogs(chans), id)
    IN  /\ ~aborted
        /\ model' = r.model
        /\ chans' = r.chans
        /\ last_op' = [name |-> "remove_sound", id |-> id, ret |-> r.ret]
        /\ buffer' = << >>
        /\ UNCHANGED << aborted, points, soundscape_editor >>

\* A write of the public field master_volume.
SetMasterVolume(volume) ==
    /\ ~aborted
    /\ model' = [model EXCEPT !.master_volume = volume]
    /\ chans' = ClearLogs(chans)
    /\ last_op' = [name |-> "set_master_volume"]
    /\ buffer' = << >>
    /\ UNCHANGED << aborted, points, soundscape_editor >>

\* A write of the public field soloed.
SetSoloed(sources) ==
    /\ ~aborted
    /\ model' = [model EXCEPT !.soloed = sources]
    /\ chans' = ClearLogs(chans)
    /\ last_op' = [name |-> "set_soloed"]
    /\ buffer' = << >>
    /\ UNCHANGED << aborted, points, soundscape_editor >>

\* A write of the public field dbap_rolloff_db.
SetDbapRolloffDb(rolloff_db) ==
    /\ ~aborted
    /\ model' = [model EXCEPT !.dbap_rolloff_db = rolloff_db]
    /\ chans' = ClearLogs(chans)
    /\ last_op' = [name |-> "set_dbap_rolloff_db"]
    /\ buffer' = << >>
    /\ UNCHANGED << aborted, points, soundscape_editor >>

\* One call of render by the audio device, with a buffer of n_frames frames
\* of n_channels channels whose samples hold `entry`.
Render(n_frames, n_channels, sp_order, seek_fail, entry) ==
    LET r == render(model, ClearLogs(chans), n_frames, n_channels,
                    Ascending(DOMAIN model.sounds), sp_order, seek_fail, entry)
    IN  /\ ~aborted
        /\ model' = r.model
        /\ chans' = r.chans
        /\ buffer' = r.buffer
        /\ aborted' = r.aborted
        /\ last_op' = [name |-> "render", n_frames |-> n_frames, n_channels |-> n_channels,
                       sp_order |-> sp_order, seek_fail |-> seek_fail, entry |-> entry,
                       mix |-> r.mix]
        /\ UNCHANGED << points, soundscape_editor >>

\* The GUI thread takes one message from its channel.
GuiRecv ==
    /\ chans.gui_len > 0
    /\ chans' = [ClearLogs(chans) EXCEPT !.gui_len = @ - 1]
    /\ last_op' = [name |-> "gui_recv"]
    /\ buffer' = << >>
    /\ UNCHANGED << model, aborted, points, soundscape_editor >>

\* A receiver goes away: every later send on its channel fails.
Disconnect(receiver) ==
    /\ chans[receiver]
    /\ chans' = [ClearLogs(chans) EXCEPT ![receiver] = FALSE]
    /\ last_op' = [name |-> "disconnect"]
    /\ buffer' = << >>
    /\ UNCHANGED << model, aborted, points, soundscape_editor >>

\* One call of BoundingBox::from_points on the points.
FromPoints ==
    /\ last_op' = [name |-> "from_points", ret |-> from_points(points)]
    /\ UNCHANGED << model, chans, buffer, aborted, points, soundscape_editor >>

\* One pass of soundscape_editor::set.
Set(toggle, clicks, selection, remove, events) ==
    LET r == set(soundscape_editor, toggle, clicks, selection, remove, events)
    IN  /\ ~soundscape_editor.panicked
        /\ soundscape_editor' = r.editor
        /\ last_op' = [name |-> "set", added |-> r.added, removed |-> r.removed]
        /\ UNCHANGED << model, chans, buffer, aborted, points >>

(* --------------------- the sound lifecycle (Spec) ---------------------- *)

\* The sounds handed to insert_sound: one or two channels, finite or
\* endless, played once or continuously reseeked, playing and not muted.
LifecycleSounds ==
    { Sound(1, channels, FALSE, TRUE, {1}, 0, Signal(frames, channels, 1, FALSE)) :
        channels \in {1, 2}, frames \in (1..MaxSignalFrames) \cup {Infinite} }
    \cup
    { Sound(1, 1, FALSE, TRUE, {1}, 0, Signal(frames, 1, 1, TRUE)) :
        frames \in 1..MaxSignalFrames }

Next ==
    \/ \E sound \in LifecycleSounds : InsertSound(1, sound)
    \/ RemoveSound(1)
    \/ \E mutator \in {"mute", "unmute", "two_channels"} : UpdateSound(1, mutator)
    \/ \E n_frames \in 1..MaxFrames, seek_fail \in SUBSET {1} :
            Render(n_frames, 1, << >>, seek_fail, 0)

Spec == Init /\ [][Next]_vars

(* ------------------- speakers and mixing (SpecMix) --------------------- *)

\* The sounds handed to insert_sound: endless, one or two channels, samples
\* of either sign, in installation 1.
MixSounds ==
    { Sound(1, channels, FALSE, TRUE, {1}, 0, Signal(Infinite, channels, amp, FALSE)) :
        channels \in {1, 2}, amp \in Amps }

\* The speakers handed to insert_speaker: on device channel 0 or 1, at the
\* sound's position or away from it, in installation 1.
MixSpeakers == { Speaker(channel, point, {1}) : channel \in {0, 1}, point \in {0, 2} }

\* The master volumes that are set.
MixVolumes == {1, 2}

NextMix ==
    \/ \E sound \in MixSounds : InsertSound(1, sound)
    \/ \E id \in SpeakerIds, speaker \in MixSpeakers : InsertSpeaker(id, speaker)
    \/ \E id \in SpeakerIds : RemoveSpeaker(id)
    \/ \E volume \in MixVolumes : SetMasterVolume(volume)
    \/ \E n_channels \in {1, 2}, sp_order \in Orders(DOMAIN model.speakers) :
            /\ model.frame_count + 1 <= MixFrames
            /\ Render(1, n_channels, sp_order, {}, 0)

SpecMix == Init /\ [][NextMix]_vars

(* ------------------ speakers and analysis (SpecAnalysis) --------------- *)

\* The sound handed to insert_sound: endless, one channel, in both
\* installations.
AnalysisSounds ==
    { Sound(1, 1, FALSE, TRUE, {1, 2}, 0, Signal(Infinite, 1, 1, FALSE)) }

\* The speakers handed to insert_speaker: on device channel 0 or 1, near the
\* sound or away from it, in one installation or the other.
AnalysisSpeakers ==
    { Speaker(channel, 2 * channel, {inst}) : channel \in {0, 1}, inst \in Installations }

NextAnalysis ==
    \/ \E sound \in AnalysisSounds : InsertSound(1, sound)
    \/ \E id \in SpeakerIds, speaker \in AnalysisSpeakers : InsertSpeaker(id, speaker)
    \/ \E id \in SpeakerIds : RemoveSpeaker(id)
    \/ \E id \in SpeakerIds, inst \in Installations : InsertSpeakerInstallation(id, inst)
    \/ \E id \in SpeakerIds, inst \in Installations : RemoveSpeakerInstallation(id, inst)
    \/ \E sp_order \in Orders(DOMAIN model.speakers) :
            /\ model.frame_count + 1 <= AnalysisFrames
            /\ Render(1, 2, sp_order, {}, 0)

SpecAnalysis == Init /\ [][NextAnalysis]_vars

(* ------------------- the consumers (SpecChannels) ---------------------- *)

\* The sounds handed to insert_sound: one channel, one frame long or endless.
ChannelsSounds ==
    { Sound(1, 1, FALSE, TRUE, {1}, 0, Signal(frames, 1, 1, FALSE)) : frames \in {1, Infinite} }

\* The speaker handed to insert_speaker.
ChannelsSpeakers == { Speaker(0, 0, {1}) }

\* The audio thread's operations, interleaved with the GUI thread taking
\* messages at any pace and with any receiver going away.
NextChannels ==
    \/ \E sound \in ChannelsSounds : InsertSound(1, sound)
    \/ RemoveSound(1)
    \/ \E speaker \in ChannelsSpeakers : InsertSpeaker(1, speaker)
    \/ RemoveSpeaker(1)
    \/ \E sp_order \in Orders(DOMAIN model.speakers) :
            /\ model.frame_count + 1 <= ChannelsFrames
            /\ Render(1, 1, sp_order, {}, 0)
    \/ GuiRecv
    \/ \E receiver \in {"gui_connected", "osc_connected", "soundscape_connected"} :
            Disconnect(receiver)

SpecChannels == Init /\ [][NextChannels]_vars

(* ----------------- insertion and removal (SpecEntities) ---------------- *)

\* The sounds handed to insert_sound: endless, of one or two channels.
EntitySounds ==
    { Sound(1, channels, FALSE, TRUE, {1}, 0, Signal(Infinite, channels, 1, FALSE)) :
        channels \in {1, 2} }

\* The speakers handed to insert_speaker: on device channel 0 or 1.
EntitySpeakers == { Speaker(channel, 2 * channel, {1}) : channel \in {0, 1} }

NextEntities ==
    \/ \E id \in SoundIds, sound \in EntitySounds : InsertSound(id, sound)
    \/ \E id \in SoundIds : RemoveSound(id)
    \/ \E id \in SpeakerIds, speaker \in EntitySpeakers : InsertSpeaker(id, speaker)
    \/ \E id \in SpeakerIds : RemoveSpeaker(id)
    \/ \E sp_order \in Orders(DOMAIN model.speakers) :
            /\ model.frame_count + 1 <= EntityFrames
            /\ Render(1, 2, sp_order, {}, 0)

SpecEntities == Init /\ [][NextEntities]_vars

(* ------------- paused, muted and soloed sounds (SpecGate) -------------- *)

\* The sounds handed to insert_sound: playing and not muted, from source 1,
\* of one or two channels, finite or endless, played once.
GateSounds ==
    { Sound(1, channels, FALSE, TRUE, {1}, 0, Signal(frames, channels, 1, FALSE)) :
        channels \in {1, 2}, frames \in (1..MaxSignalFrames) \cup {Infinite} }

\* The continuously reseeked streams handed to insert_sound, of one channel;
\* they are handed over at their beginning while the frame counter is at 0,
\* so that a stream starts where the frame counter is.
GateStreams ==
    { Sound(1, 1, FALSE, TRUE, {1}, 0, Signal(frames, 1, 1, TRUE)) :
        frames \in 2..MaxSignalFrames }

\* The speaker handed to insert_speaker.
GateSpeakers == { Speaker(0, 0, {1}) }

NextGate ==
    \/ \E sound \in GateSounds : InsertSound(1, sound)
    \/ \E sound \in GateStreams : model.frame_count = 0 /\ InsertSound(1, sound)
    \/ \E mutator \in {"mute", "unmute", "pause", "play"} : UpdateSound(1, mutator)
    \/ \E sources \in {{}, {2}} : SetSoloed(sources)
    \/ \E speaker \in GateSpeakers : InsertSpeaker(1, speaker)
    \/ \E n_frames \in 1..MaxFrames, sp_order \in Orders(DOMAIN model.speakers) :
            /\ model.frame_count + n_frames <= GateFrames
            /\ Render(n_frames, 1, sp_order, {}, 0)

SpecGate == Init /\ [][NextGate]_vars

(* --------------------- the silent buffer (SpecSilence) ----------------- *)

\* What the samples of the buffer may hold when render is called.
EntrySamples == {0, 1}

\* The sound handed to insert_sound.
SilenceSounds == { Sound(1, 1, FALSE, TRUE, {1}, 0, Signal(Infinite, 1, 1, FALSE)) }

\* The speakers handed to insert_speaker.
SilenceSpeakers == { Speaker(channel, 0, {1}) : channel \in {0, 1} }

NextSilence ==
    \/ \E sound \in SilenceSounds : InsertSound(1, sound)
    \/ RemoveSound(1)
    \/ \E speaker \in SilenceSpeakers : InsertSpeaker(1, speaker)
    \/ RemoveSpeaker(1)
    \/ \E volume \in {1, 2} : SetMasterVolume(volume)
    \/ \E n_frames \in 1..MaxFrames, n_channels \in {1, 2},
          sp_order \in Orders(DOMAIN model.speakers), entry \in EntrySamples :
            /\ model.frame_count + n_frames <= SilenceFrames
            /\ Render(n_frames, n_channels, sp_order, {}, entry)

SpecSilence == Init /\ [][NextSilence]_vars

(* ------------- the installation messages (SpecReport) ----------------- *)

\* The sound handed to insert_sound: endless, one channel, in both
\* installations.
ReportSounds ==
    { Sound(1, 1, FALSE, TRUE, {1, 2}, 0, Signal(Infinite, 1, 1, FALSE)) }

\* The speaker handed to insert_speaker under `id`: speaker 1 on device
\* channel 0 near the sound, speaker 2 on device channel 1 away from it, both
\* in installation 1.
ReportSpeaker(id) == Speaker(id - 1, 2 * (id - 1), {1})

NextReport ==
    \/ \E sound \in ReportSounds : InsertSound(1, sound)
    \/ \E id \in SpeakerIds : InsertSpeaker(id, ReportSpeaker(id))
    \/ \E id \in SpeakerIds : RemoveSpeaker(id)
    \/ \E id \in SpeakerIds : InsertSpeakerInstallation(id, 2)
    \/ \E id \in SpeakerIds : RemoveSpeakerInstallation(id, 1)
    \/ \E n_channels \in {1, 2}, sp_order \in Orders(DOMAIN model.speakers) :
            /\ model.frame_count + 1 <= ReportFrames
            /\ Render(1, n_channels, sp_order, {}, 0)

SpecReport == Init /\ [][NextReport]_vars

(* ------------------------- messages of a call -------------------------- *)

\* The number of End messages for sound `id` that the last operation
\* attempted toward the GUI.
EndCount(ch, id) ==
    Cardinality({ k \in 1..Len(ch.gui_log) :
                    ch.gui_log[k].kind = "End" /\ ch.gui_log[k].id = id })

\* The number of remove_active_sound updates for sound `id` that the last
\* operation sent toward the soundscape thread.
RemoveActiveCount(ch, id) ==
    Cardinality({ k \in 1..Len(ch.soundscape_log) :
                    /\ ch.soundscape_log[k].kind = "remove_active_sound"
                    /\ ch.soundscape_log[k].id = id })

\* Whether a playing sound is rendered audibly: not muted, and not left out
\* by the solo set.
Audible(m, sound) ==
    /\ sound.playing
    /\ ~sound.muted
    /\ ~(m.soloed # {} /\ sound.source_id \notin m.soloed)

(* ------------------------------- claims -------------------------------- *)

\* C1: whenever an ActiveSound stops being held by the model (it leaves the
\* sounds map, or insert_sound replaces it under its id), the operation
\* attempts an End message for its id toward the GUI and sends a
\* remove_active_sound update toward the soundscape thread.
C1_ReleaseAlwaysNotifies ==
    [][\A id \in DOMAIN model.sounds :
          (\/ id \notin DOMAIN model'.sounds
           \/ (last_op'.name = "insert_sound" /\ last_op'.id = id))
          => (EndCount(chans', id) >= 1 /\ RemoveActiveCount(chans', id) >= 1)]_vars

\* C2, as claimed: after a render call, no audible sound with a finite signal
\* is still in the model with all of its frames pulled.
C2_RemovedOncePulled ==
    (last_op.name = "render" /\ ~aborted) =>
        \A id \in DOMAIN model.sounds :
            LET active == model.sounds[id]
            IN  (/\ Audible(model, active.sound)
                 /\ ~active.sound.signal.continuous
                 /\ IsSome(active.total_duration_frames))
                => active.sound.signal.samples_left > 0

\* C2, amended: a render call removes an audible sound with a finite signal
\* exactly when the signal (after the reseek of a continuous stream) yields
\* fewer samples than the call requests, none included; the call then
\* attempts exactly one End message and one soundscape update for it.  A
\* call that the remaining frames fill exactly leaves the sound in the model
\* with nothing left, and no step that keeps the sound attempts an End
\* message for it.
C2_RemovedWhenShort ==
    [][\A id \in DOMAIN model.sounds :
          LET active == model.sounds[id]
              sound == active.sound
              signal == IF sound.signal.continuous
                        THEN SignalSeek(sound.signal, model.frame_count) ELSE sound.signal
              num_samples == last_op'.n_frames * sound.channels
              removed == id \notin DOMAIN model'.sounds
          IN  /\ (last_op'.name = "render" /\ ~aborted' /\ Audible(model, sound)
                    /\ signal.samples_left # Infinite
                    /\ ~(sound.signal.continuous /\ id \in last_op'.seek_fail))
                 => /\ removed <=> signal.samples_left < num_samples
                    /\ ~removed =>
                          model'.sounds[id].sound.signal.samples_left
                              = signal.samples_left - num_samples
              /\ EndCount(chans', id) = (IF removed THEN 1 ELSE 0)
              /\ RemoveActiveCount(chans', id) = (IF removed THEN 1 ELSE 0)]_vars

\* C2's case: a render call that found an audible sound with every frame
\* already pulled (its Update message reports the progress total/total) and
\* removed it.
C2_RemovedOnNextCall ==
    /\ last_op.name = "render"
    /\ \E i, j \in 1..Len(chans.gui_log) :
          /\ chans.gui_log[i].kind = "Update"
          /\ IsSome(chans.gui_log[i].normalised_progress)
          /\ chans.gui_log[i].normalised_progress[1][1] = chans.gui_log[i].normalised_progress[1][2]
          /\ chans.gui_log[i].normalised_progress[1][2] > 0
          /\ chans.gui_log[j].kind = "End"
          /\ chans.gui_log[j].id = chans.gui_log[i].id
          /\ ~chans.gui_log[j].sound.sound.muted

\* C6: every ActiveSound of the model has one channel detector per channel
\* of its sound.
C6_DetectorPerChannel ==
    \A id \in DOMAIN model.sounds :
        Len(model.sounds[id].channel_detectors) = model.sounds[id].sound.channels

\* C7: no render call aborts.
C7_RenderNeverAborts == ~aborted

\* C8: a render call adds the number of frames of its buffer to the frame
\* counter, which thereby grows unless it passes the boundary of its width;
\* no other operation changes the frame counter.
C8_FrameCountAdvances ==
    [][IF last_op'.name = "render" /\ ~aborted'
       THEN /\ model'.frame_count
                 = (model.frame_count + last_op'.n_frames) % FrameCountModulus
            /\ (model.frame_count + last_op'.n_frames < FrameCountModulus)
                 => (/\ model'.frame_count = model.frame_count + last_op'.n_frames
                     /\ model'.frame_count > model.frame_count)
       ELSE model'.frame_count = model.frame_count]_vars

\* C8's case: a render call that took the frame counter past the boundary
\* of its width.
C8_Wrapped ==
    /\ last_op.name = "render"
    /\ ~aborted
    /\ model.frame_count < last_op.n_frames

\* The gain the solver computes for the speaker on device channel `c`, for a
\* sound channel at `point` of a sound in `installations`: the solver is
\* given the speakers of the populated device channels, in channel order.
SolverGain(speakers, sp_order, installations, point, c, n_channels, rolloff_db) ==
    LET dbap_speakers == DbapSpeakers(speakers, sp_order, [installations |-> installations],
                                      point, 0, n_channels)
        rank == Cardinality({ b \in 0..c : IsSome(FindSpeaker(speakers, sp_order, b)) })
    IN  SpeakerGains(dbap_speakers, rolloff_db)[rank]

\* C3: in a render call, what a sound channel adds to device channel c is
\* scaled by the gain the solver computed for the speaker assigned to c, and
\* a device channel without a speaker receives nothing.
C3_GainReachesItsChannel ==
    (last_op.name = "render" /\ ~aborted) =>
        /\ \A k \in 1..Len(last_op.mix), c \in 0..(last_op.n_channels - 1) :
              LET e == last_op.mix[k]
              IN  IF IsSome(FindSpeaker(model.speakers, last_op.sp_order, c))
                  THEN e.gains[c] = SolverGain(model.speakers, last_op.sp_order,
                                               e.installations, e.point, c,
                                               last_op.n_channels, model.dbap_rolloff_db)
                  ELSE e.gains[c] = 0
        /\ \A f \in DOMAIN buffer, c \in 0..(last_op.n_channels - 1) :
              FindSpeaker(model.speakers, last_op.sp_order, c) = None => buffer[f][c] = 0

\* C4: every installation message of a render call carries, as average peak
\* and average RMS, the sum of the values of the speakers listed in it
\* divided by their number.
C4_InstallationAverages ==
    \A k \in 1..Len(chans.osc_log) :
        LET msg == chans.osc_log[k]
            n == Len(msg.speakers)
        IN  msg.kind = "Audio" =>
                /\ n > 0
                /\ msg.avg_rms = SumSeq([j \in 1..n |-> msg.speakers[j].rms]) \div n
                /\ msg.avg_peak = SumSeq([j \in 1..n |-> msg.speakers[j].peak]) \div n

\* C5: insert_speaker on an id already present keeps that id's envelope and
\* FFT detectors as they were, replaces the Speaker by the one given and
\* returns the previous Speaker; on an absent id it creates fresh detectors
\* and returns None.  No other speaker changes.
C5_ReinsertKeepsDetectors ==
    [][last_op'.name = "insert_speaker" =>
          LET id == last_op'.id
          IN  /\ DOMAIN model'.speakers = DOMAIN model.speakers \cup {id}
              /\ model'.speakers[id].speaker = last_op'.speaker
              /\ IF id \in DOMAIN model.speakers
                 THEN /\ model'.speakers[id].env_detector = model.speakers[id].env_detector
                      /\ model'.speakers[id].fft_detector = model.speakers[id].fft_detector
                      /\ last_op'.ret = Some(model.speakers[id].speaker)
                 ELSE /\ model'.speakers[id].env_detector = EnvDetectorNew
                      /\ model'.speakers[id].fft_detector = FftDetectorNew
                      /\ last_op'.ret = None
              /\ \A other \in DOMAIN model.speakers \ {id} :
                    model'.speakers[other] = model.speakers[other]]_vars

\* C5's case: a speaker whose detectors had been fed was inserted again
\* with another description, and its detectors still hold what they were fed.
C5_ReinsertedAfterFeeding ==
    /\ last_op.name = "insert_speaker"
    /\ IsSome(last_op.ret)
    /\ last_op.ret[1] # last_op.speaker
    /\ model.speakers[last_op.id].speaker = last_op.speaker
    /\ model.speakers[last_op.id].env_detector # EnvDetectorNew
    /\ model.speakers[last_op.id].fft_detector # FftDetectorNew

\* C9: a render call attempts exactly one master-level message toward the
\* GUI, and its value is the largest absolute value of a sample of the
\* buffer after the master volume was applied.
C9_MasterPeakIsAbsolute ==
    (last_op.name = "render" /\ ~aborted) =>
        LET masters == { k \in 1..Len(chans.gui_log) : chans.gui_log[k].kind = "Master" }
            samples == { Abs(buffer[f][c]) : f \in DOMAIN buffer, c \in DOMAIN buffer[0] }
        IN  /\ Cardinality(masters) = 1
            /\ \A k \in masters :
                  /\ \A s \in samples : s <= chans.gui_log[k].peak
                  /\ chans.gui_log[k].peak \in samples \cup {0}

\* C10: whatever becomes of the messages an operation sends (delivered,
\* dropped on a full channel, dropped because the receiver is gone), render,
\* insert_speaker, remove_speaker, insert_sound and remove_sound return the
\* same value, leave the same model and the same buffer and attempt the same
\* messages as with channels that deliver everything; the four lifecycle
\* operations can be called in every state of the channels, and the
\* consumers' own steps leave the model alone.
C10_SendOutcomeInvisible ==
    [][/\ ~aborted =>
            /\ ENABLED RemoveSound(1)
            /\ ENABLED RemoveSpeaker(1)
            /\ \A sound \in ChannelsSounds : ENABLED InsertSound(1, sound)
            /\ \A speaker \in ChannelsSpeakers : ENABLED InsertSpeaker(1, speaker)
       /\ LET ideal ==
                  CASE last_op'.name = "insert_speaker" ->
                         insert_speaker(model, ChannelsNew, last_op'.id, last_op'.speaker)
                    [] last_op'.name = "remove_speaker" ->
                         remove_speaker(model, ChannelsNew, last_op'.id)
                    [] last_op'.name = "insert_sound" ->
                         insert_sound(model, ChannelsNew, last_op'.id,
                                      model'.sounds[last_op'.id])
                    [] last_op'.name = "remove_sound" ->
                         remove_sound(model, ChannelsNew, last_op'.id)
                    [] last_op'.name = "render" ->
                         render(model, ChannelsNew, last_op'.n_frames, last_op'.n_channels,
                                Ascending(DOMAIN model.sounds), last_op'.sp_order,
                                last_op'.seek_fail, last_op'.entry)
                    [] OTHER -> [model |-> model, chans |-> ChannelsNew]
          IN  /\ model' = ideal.model
              /\ last_op'.name \in {"insert_speaker", "remove_speaker", "insert_sound",
                                    "remove_sound"}
                    => /\ last_op'.ret = ideal.ret
                       /\ buffer' = << >>
              /\ last_op'.name = "render"
                    => /\ buffer' = ideal.buffer
                       /\ aborted' = ideal.aborted
              /\ last_op'.name \in {"insert_speaker", "remove_speaker", "insert_sound",
                                    "remove_sound", "render"}
                    => /\ chans'.gui_log = ideal.chans.gui_log
                       /\ chans'.osc_log = ideal.chans.osc_log
                       /\ chans'.soundscape_log = ideal.chans.soundscape_log]_vars

\* C10's case: a render call mixed a sound into its buffer and fed a speaker
\* while the GUI channel was full and the OSC and soundscape receivers were
\* gone, so that its messages were dropped.
C10_RenderedWhileDropping ==
    /\ last_op.name = "render"
    /\ ~aborted
    /\ chans.dropped = 1
    /\ chans.gui_len = GuiCapacity
    /\ ~chans.osc_connected
    /\ ~chans.soundscape_connected
    /\ \E f \in DOMAIN buffer : \E c \in DOMAIN buffer[f] : buffer[f][c] # 0
    /\ chans.osc_log # << >>

\* C11: insert_sound and insert_speaker make the id present and raise the
\* number of sounds or speakers by one when the id was absent and leave it
\* when the id was present; remove_sound and remove_speaker make the id
\* absent and lower the number by one when it was present; a render call on
\* sounds that do not end changes neither number.  The numbers are thus
\* those of the ids inserted and not removed since.
C11_CountsFollowInserts ==
    [][LET sounds == DOMAIN model.sounds
           speakers == DOMAIN model.speakers
           id == last_op'.id
           Count(S) == Cardinality(S)
       IN  /\ last_op'.name = "insert_sound" =>
                /\ DOMAIN model'.sounds = sounds \cup {id}
                /\ Count(DOMAIN model'.sounds) = Count(sounds) + (IF id \in sounds THEN 0 ELSE 1)
                /\ DOMAIN model'.speakers = speakers
           /\ last_op'.name = "remove_sound" =>
                /\ DOMAIN model'.sounds = sounds \ {id}
                /\ Count(DOMAIN model'.sounds) = Count(sounds) - (IF id \in sounds THEN 1 ELSE 0)
                /\ DOMAIN model'.speakers = speakers
           /\ last_op'.name = "insert_speaker" =>
                /\ DOMAIN model'.speakers = speakers \cup {id}
                /\ Count(DOMAIN model'.speakers)
                      = Count(speakers) + (IF id \in speakers THEN 0 ELSE 1)
                /\ DOMAIN model'.sounds = sounds
           /\ last_op'.name = "remove_speaker" =>
                /\ DOMAIN model'.speakers = speakers \ {id}
                /\ Count(DOMAIN model'.speakers)
                      = Count(speakers) - (IF id \in speakers THEN 1 ELSE 0)
                /\ DOMAIN model'.sounds = sounds
           /\ (/\ last_op'.name = "render"
               /\ \A s \in sounds : model.sounds[s].sound.signal.samples_left = Infinite) =>
                /\ DOMAIN model'.sounds = sounds
                /\ DOMAIN model'.speakers = speakers]_vars

\* C11's case: an id was inserted again while both sound ids and a speaker
\* were present, after a render call, and the sounds are still two.
C11_ReinsertedAmongTwo ==
    /\ last_op.name = "insert_sound"
    /\ IsSome(last_op.ret)
    /\ DOMAIN model.sounds = SoundIds
    /\ Cardinality(DOMAIN model.speakers) = 1
    /\ model.frame_count > 0

\* C12: remove_sound and remove_speaker on an id that is not in the model
\* return false / None, leave the model as it is and send nothing on any
\* channel.
C12_RemoveAbsentIsNoOp ==
    [][(\/ (last_op'.name = "remove_sound" /\ last_op'.id \notin DOMAIN model.sounds)
        \/ (last_op'.name = "remove_speaker" /\ last_op'.id \notin DOMAIN model.speakers))
       => /\ last_op'.ret = (IF last_op'.name = "remove_sound" THEN FALSE ELSE None)
          /\ model' = model
          /\ chans'.gui_log = << >>
          /\ chans'.osc_log = << >>
          /\ chans'.soundscape_log = << >>
          /\ chans'.gui_len = chans.gui_len]_vars

\* C12's case: a sound id that is not in the model was removed while another
\* sound and a speaker were there.
C12_RemovedAbsent ==
    /\ last_op.name = "remove_sound"
    /\ last_op.ret = FALSE
    /\ last_op.id \notin DOMAIN model.sounds
    /\ model.sounds # EmptyMap
    /\ model.speakers # EmptyMap

\* C20: insert_speaker attempts exactly one SpeakerAdd message toward the
\* GUI, whether or not the id was present; remove_speaker attempts exactly
\* one SpeakerRemove message when the id was present and none otherwise.
C20_SpeakerNotifications ==
    [][/\ last_op'.name = "insert_speaker" =>
            chans'.gui_log = << [kind |-> "SpeakerAdd", id |-> last_op'.id] >>
       /\ last_op'.name = "remove_speaker" =>
            chans'.gui_log = (IF last_op'.id \in DOMAIN model.speakers
                              THEN << [kind |-> "SpeakerRemove", id |-> last_op'.id] >>
                              ELSE << >>)]_vars

\* C20's case: a speaker was inserted under an id that was already present.
C20_AddedOnReplace ==
    /\ last_op.name = "insert_speaker"
    /\ IsSome(last_op.ret)
    /\ Len(chans.gui_log) = 1

\* The entries of a render call's mix record that belong to sound `id`.
MixEntries(mix, id) == { k \in 1..Len(mix) : mix[k].id = id }

\* The number of messages of `kind` for sound `id` that the last operation
\* attempted toward the GUI.
SoundMessageCount(ch, kind, id) ==
    Cardinality({ k \in 1..Len(ch.gui_log) :
                    ch.gui_log[k].kind = kind /\ ch.gui_log[k].id = id })

\* Whether every sample of a buffer is zero.
AllZero(buf) == \A f \in DOMAIN buf : \A c \in DOMAIN buf[f] : buf[f][c] = 0

\* C13, as claimed: after a render call, a playing sound that is muted or
\* left out by the solo set has as many samples left as it would have if the
\* call had found it audible, and is removed exactly if it would have been.
C13_AdvancesAsIfAudible ==
    [][(last_op'.name = "render" /\ ~aborted') =>
          \A id \in DOMAIN model.sounds :
              LET sound == model.sounds[id].sound
                  audibly == render([model EXCEPT !.soloed = {},
                                                  !.sounds[id].sound.muted = FALSE],
                                    ClearLogs(chans), last_op'.n_frames, last_op'.n_channels,
                                    Ascending(DOMAIN model.sounds), last_op'.sp_order,
                                    last_op'.seek_fail, last_op'.entry)
              IN  (sound.playing /\ ~Audible(model, sound)) =>
                      /\ (id \in DOMAIN model'.sounds) <=> (id \in DOMAIN audibly.model.sounds)
                      /\ (id \in DOMAIN model'.sounds) =>
                            model'.sounds[id].sound.signal.samples_left
                                = audibly.model.sounds[id].sound.signal.samples_left]_vars

\* C13, amended: a playing sound that is muted or left out by the solo set
\* adds nothing to the buffer of a render call and gets no channel-detector
\* update, and min(frames * channels, samples left) samples are taken from
\* its signal where it stands (a sound that yields fewer than requested is
\* removed); for a signal that is not a continuously reseeked stream this is
\* what the call would take if the sound were audible.
C13_SilencedSoundAdvances ==
    [][(last_op'.name = "render" /\ ~aborted') =>
          /\ (\A id \in DOMAIN model.sounds : ~Audible(model, model.sounds[id].sound))
                => AllZero(buffer')
          /\ \A id \in DOMAIN model.sounds :
                LET active == model.sounds[id]
                    sound == active.sound
                    left == sound.signal.samples_left
                    num_samples == last_op'.n_frames * sound.channels
                    yielded == IF left = Infinite THEN num_samples ELSE Min(num_samples, left)
                    audibly == render([model EXCEPT !.soloed = {},
                                                    !.sounds[id].sound.muted = FALSE],
                                      ClearLogs(chans), last_op'.n_frames, last_op'.n_channels,
                                      Ascending(DOMAIN model.sounds), last_op'.sp_order,
                                      last_op'.seek_fail, last_op'.entry)
                IN  (sound.playing /\ ~Audible(model, sound)) =>
                        /\ MixEntries(last_op'.mix, id) = {}
                        /\ SoundMessageCount(chans', "UpdateChannel", id) = 0
                        /\ IF yielded < num_samples
                           THEN id \notin DOMAIN model'.sounds
                           ELSE /\ id \in DOMAIN model'.sounds
                                /\ model'.sounds[id].channel_detectors = active.channel_detectors
                                /\ model'.sounds[id].sound.signal.samples_left
                                      = (IF left = Infinite THEN Infinite ELSE left - yielded)
                        /\ ~sound.signal.continuous =>
                              /\ (id \in DOMAIN model'.sounds)
                                    <=> (id \in DOMAIN audibly.model.sounds)
                              /\ (id \in DOMAIN model'.sounds) =>
                                    model'.sounds[id].sound.signal
                                        = audibly.model.sounds[id].sound.signal]_vars

\* C13's case: the first render call found a muted two-channel sound with a
\* finite signal and a speaker to play on; the buffer is silent and the
\* sound has fewer samples left.
C13_MutedAdvanced ==
    /\ last_op.name = "render"
    /\ last_op.n_frames = model.frame_count
    /\ 1 \in DOMAIN model.sounds
    /\ model.sounds[1].sound.muted
    /\ model.sounds[1].sound.playing
    /\ model.sounds[1].sound.channels = 2
    /\ model.sounds[1].sound.signal.samples_left > 0
    /\ model.sounds[1].sound.signal.samples_left < model.sounds[1].sound.signal.length
    /\ model.speakers # EmptyMap
    /\ AllZero(buffer)

\* C14: a render call leaves a sound whose playing flag is off as it is
\* (signal, detectors, presence), mixes nothing of it and sends nothing
\* about it but the one Update message.
C14_PausedSoundUntouched ==
    [][(last_op'.name = "render" /\ ~aborted') =>
          /\ (\A id \in DOMAIN model.sounds : ~model.sounds[id].sound.playing)
                => AllZero(buffer')
          /\ \A id \in DOMAIN model.sounds :
                ~model.sounds[id].sound.playing =>
                    /\ id \in DOMAIN model'.sounds
                    /\ model'.sounds[id] = model.sounds[id]
                    /\ MixEntries(last_op'.mix, id) = {}
                    /\ SoundMessageCount(chans', "Update", id) = 1
                    /\ SoundMessageCount(chans', "UpdateChannel", id) = 0
                    /\ EndCount(chans', id) = 0
                    /\ RemoveActiveCount(chans', id) = 0]_vars

\* C14's case: a render call asked for more frames than a paused sound has
\* left, with a speaker to play on; the sound is still there with all of its
\* samples.
C14_PausedKept ==
    /\ last_op.name = "render"
    /\ 1 \in DOMAIN model.sounds
    /\ ~model.sounds[1].sound.playing
    /\ ~model.sounds[1].sound.muted
    /\ model.sounds[1].sound.signal.samples_left = model.sounds[1].sound.signal.length
    /\ model.sounds[1].sound.signal.samples_left
          < last_op.n_frames * model.sounds[1].sound.channels
    /\ model.speakers # EmptyMap
    /\ SoundMessageCount(chans, "Update", 1) = 1

\* C16: a render call in which an audible sound yields fewer samples than
\* requested mixes what it yielded, followed by silence, into the buffer,
\* lets every in-range speaker's detector see the mixed buffer, and removes
\* the sound with one End message before it returns.
C16_LastSamplesAreMixed ==
    [][(last_op'.name = "render" /\ ~aborted' /\ DOMAIN model.sounds = {1}) =>
          LET sound == model.sounds[1].sound
              left == sound.signal.samples_left
              num_samples == last_op'.n_frames * sound.channels
              entries == MixEntries(last_op'.mix, 1)
              mixed == [f \in 0..(last_op'.n_frames - 1) |->
                          [c \in 0..(last_op'.n_channels - 1) |->
                              SumSeq([k \in 1..Len(last_op'.mix) |->
                                  LET e == last_op'.mix[k]
                                  IN  IF f * sound.channels + e.channel < left
                                      THEN sound.signal.amp * e.gains[c] * sound.volume
                                      ELSE 0])]]
          IN  (Audible(model, sound) /\ ~sound.signal.continuous
                 /\ left # Infinite /\ left < num_samples) =>
                  /\ Cardinality(entries) = sound.channels
                  /\ buffer' = [f \in DOMAIN mixed |-> [c \in DOMAIN mixed[f] |->
                                    mixed[f][c] * model.master_volume]]
                  /\ \A s \in DOMAIN model.speakers :
                        model.speakers[s].speaker.channel < last_op'.n_channels =>
                            \A f \in DOMAIN mixed :
                                model'.speakers[s].env_detector.peak
                                    >= Abs(mixed[f][model.speakers[s].speaker.channel])
                  /\ 1 \notin DOMAIN model'.sounds
                  /\ EndCount(chans', 1) = 1
                  /\ RemoveActiveCount(chans', 1) = 1]_vars

\* C16's case: the first render call asked for two frames of a sound that
\* had one; the buffer holds the frame and then silence, the speaker's
\* detector saw the frame, and the sound is gone.
C16_PartialBufferThenRemoved ==
    /\ last_op.name = "render"
    /\ last_op.n_frames = 2
    /\ model.frame_count = 2
    /\ model.sounds = EmptyMap
    /\ EndCount(chans, 1) = 1
    /\ buffer[0][0] # 0
    /\ buffer[1][0] = 0
    /\ 1 \in DOMAIN model.speakers
    /\ model.speakers[1].env_detector.peak = Abs(buffer[0][0])

\* C18: a render call in which the reseek of an audible continuous stream
\* fails leaves that sound as it is: nothing is pulled from it or mixed, it
\* stays in the model and no End message or soundscape update is sent for
\* it; a call in which the reseek succeeds pulls from the position of the
\* frame counter, whatever happened in the calls before.
C18_SeekFailureSkipsOnce ==
    [][(last_op'.name = "render" /\ ~aborted') =>
          \A id \in DOMAIN model.sounds :
              LET active == model.sounds[id]
                  sound == active.sound
                  num_samples == last_op'.n_frames * sound.channels
                  sought == SignalSeek(sound.signal, model.frame_count)
              IN  (Audible(model, sound) /\ sound.signal.continuous) =>
                      IF id \in last_op'.seek_fail
                      THEN /\ id \in DOMAIN model'.sounds
                           /\ model'.sounds[id] = active
                           /\ MixEntries(last_op'.mix, id) = {}
                           /\ SoundMessageCount(chans', "UpdateChannel", id) = 0
                           /\ EndCount(chans', id) = 0
                           /\ RemoveActiveCount(chans', id) = 0
                      ELSE /\ Cardinality(MixEntries(last_op'.mix, id)) = sound.channels
                           /\ IF sought.samples_left < num_samples
                              THEN id \notin DOMAIN model'.sounds
                              ELSE /\ id \in DOMAIN model'.sounds
                                   /\ model'.sounds[id].sound.signal.samples_left
                                         = sought.samples_left - num_samples]_vars

\* C18's case: the reseek of a continuous stream failed in a render call
\* after an earlier call had pulled from it; the sound is still there.
C18_SkippedAfterPulling ==
    /\ last_op.name = "render"
    /\ last_op.seek_fail = {1}
    /\ 1 \in DOMAIN model.sounds
    /\ model.sounds[1].sound.signal.continuous
    /\ Audible(model, model.sounds[1].sound)
    /\ model.sounds[1].sound.signal.samples_left < model.sounds[1].sound.signal.length
    /\ model.sounds[1].channel_detectors[1] # EnvDetectorNew

\* C19: a render call on a model without sounds returns a buffer of the
\* size it was given whose samples are all zero, whatever the buffer held,
\* whatever the master volume and the speakers, and attempts one Master
\* message, with the value 0.
C19_NoSoundsIsSilence ==
    [][(last_op'.name = "render" /\ model.sounds = EmptyMap) =>
          /\ ~aborted'
          /\ buffer' = SilentBuffer(last_op'.n_frames, last_op'.n_channels)
          /\ \E k \in 1..Len(chans'.gui_log) :
                /\ chans'.gui_log[k] = [kind |-> "Master", peak |-> 0]
                /\ \A j \in 1..Len(chans'.gui_log) :
                      chans'.gui_log[j].kind = "Master" => j = k]_vars

\* C19's case: a render call without sounds on a buffer that held non-zero
\* samples, with the master volume raised and a speaker in range.
C19_SilencedDirtyBuffer ==
    /\ last_op.name = "render"
    /\ last_op.entry # 0
    /\ model.sounds = EmptyMap
    /\ model.master_volume # DefaultMasterVolume
    /\ \E s \in DOMAIN model.speakers : model.speakers[s].speaker.channel < last_op.n_channels
    /\ AllZero(buffer)
    /\ buffer # << >>

\* The (RMS, peak) reading of speaker `s` as its detector holds it.
Reading(m, s) ==
    [rms |-> EnvDetectorCurrent(m.speakers[s].env_detector)[1],
     peak |-> EnvDetectorCurrent(m.speakers[s].env_detector)[2]]

\* C15: a render call sends the OSC output thread exactly one message for
\* every installation that has a speaker on a channel of the buffer and none
\* for any other; the message lists the readings of exactly those speakers,
\* as their detectors hold them after this call, in the order of the
\* speakers' channels.
C15_OneMessagePerInstallation ==
    (last_op.name = "render" /\ ~aborted) =>
        /\ \A k \in 1..Len(chans.osc_log) :
              chans.osc_log[k].kind = "Audio" /\ chans.osc_log[k].installation \in Installations
        /\ \A inst \in Installations :
              LET members == { s \in DOMAIN model.speakers :
                                  /\ inst \in model.speakers[s].speaker.installations
                                  /\ model.speakers[s].speaker.channel < last_op.n_channels }
                  msgs == { k \in 1..Len(chans.osc_log) : chans.osc_log[k].installation = inst }
              IN  IF members = {} THEN msgs = {}
                  ELSE /\ Cardinality(msgs) = 1
                       /\ \A k \in msgs :
                             LET list == chans.osc_log[k].speakers
                             IN  /\ Len(list) = Cardinality(members)
                                 /\ \E ord \in Orders(members) :
                                       /\ \A j \in 1..Len(ord) : list[j] = Reading(model, ord[j])
                                       /\ \A i, j \in 1..Len(ord) :
                                             i < j => model.speakers[ord[i]].speaker.channel
                                                        <= model.speakers[ord[j]].speaker.channel

\* C15's case: the second render call visited the speaker of channel 1
\* before the speaker of channel 0, both of installation 1 and one of them
\* also of installation 2, and their readings differ.
C15_TwoSpeakersSecondCall ==
    /\ last_op.name = "render"
    /\ model.frame_count = 2
    /\ last_op.n_channels = 2
    /\ last_op.sp_order = << 2, 1 >>
    /\ Len(chans.osc_log) = 2
    /\ Len(chans.osc_log[1].speakers) = 2
    /\ Len(chans.osc_log[2].speakers) = 1
    /\ Reading(model, 1) # Reading(model, 2)

\* C17: what a render call does to the speakers' detectors and what it sends
\* about the speakers and the installations does not depend on the master
\* volume: the same call on the same model with another master volume
\* leaves the same model (but for the master volume) and sends the same
\* messages but for the Master message, and the two buffers are the same
\* mixed buffer scaled by the two master volumes.
C17_AnalysisIgnoresMasterVolume ==
    [][(last_op'.name = "render" /\ ~aborted') =>
          \A volume \in MixVolumes :
              LET other == render([model EXCEPT !.master_volume = volume], ClearLogs(chans),
                                  last_op'.n_frames, last_op'.n_channels,
                                  Ascending(DOMAIN model.sounds), last_op'.sp_order,
                                  last_op'.seek_fail, last_op'.entry)
                  NotMaster(msg) == msg.kind # "Master"
              IN  /\ ~other.aborted
                  /\ model'.speakers = other.model.speakers
                  /\ model' = [other.model EXCEPT !.master_volume = model.master_volume]
                  /\ chans'.osc_log = other.chans.osc_log
                  /\ SelectSeq(chans'.gui_log, NotMaster) = SelectSeq(other.chans.gui_log, NotMaster)
                  /\ DOMAIN buffer' = DOMAIN other.buffer
                  /\ \A f \in DOMAIN buffer' : \A c \in DOMAIN buffer'[f] :
                        buffer'[f][c] * volume = other.buffer[f][c] * model.master_volume]_vars

\* C17's case: a render call with the master volume raised whose buffer
\* holds, on a speaker's channel, twice what the speaker's detector read.
C17_ScaledAfterAnalysis ==
    /\ last_op.name = "render"
    /\ ~aborted
    /\ model.master_volume = 2
    /\ \E s \in DOMAIN model.speakers :
          LET c == model.speakers[s].speaker.channel
          IN  /\ c < last_op.n_channels
              /\ model.speakers[s].env_detector.rms > 0
              /\ Abs(buffer[0][c]) = 2 * model.speakers[s].env_detector.rms
    /\ chans.osc_log # << >>

(* ------------------- speaker installations (C21) ----------------------- *)

\* C21: insert_speaker_installation and remove_speaker_installation on an
\* unknown speaker id return false and leave the model as it was; on a known
\* id they change nothing but the installation set of that one speaker (its
\* detectors, position and channel, every other speaker, every sound and
\* every other field of the model stay), the set gaining or losing exactly
\* the installation given, and the return value tells whether the set
\* changed; neither sends a message on any channel.
C21_InstallationsOnly ==
    [][ (last_op'.name \in {"insert_speaker_installation", "remove_speaker_installation"}) =>
          LET id == last_op'.id
              inst == last_op'.inst
              inserting == last_op'.name = "insert_speaker_installation"
          IN  /\ chans' = ClearLogs(chans)
              /\ chans'.gui_log = << >>
              /\ chans'.osc_log = << >>
              /\ chans'.soundscape_log = << >>
              /\ aborted' = aborted
              /\ IF id \notin DOMAIN model.speakers
                 THEN /\ last_op'.ret = FALSE
                      /\ model' = model
                 ELSE LET before == model.speakers[id]
                          after == model'.speakers[id]
                          expected == IF inserting
                                      THEN before.speaker.installations \cup {inst}
                                      ELSE before.speaker.installations \ {inst}
                      IN  /\ DOMAIN model'.speakers = DOMAIN model.speakers
                          /\ \A other \in DOMAIN model.speakers \ {id} :
                                model'.speakers[other] = model.speakers[other]
                          /\ after.env_detector = before.env_detector
                          /\ after.fft_detector = before.fft_detector
                          /\ after.speaker.channel = before.speaker.channel
                          /\ after.speaker.point = before.speaker.point
                          /\ after.speaker.installations = expected
                          /\ last_op'.ret = (expected # before.speaker.installations)
                          /\ model'.sounds = model.sounds
                          /\ [model' EXCEPT !.speakers = model.speakers] = model
    ]_vars

\* A speaker whose detectors have heard a sound has gained an installation,
\* next to another speaker that has heard the sound too.
C21_GainedAfterFeeding ==
    /\ last_op.name = "insert_speaker_installation"
    /\ last_op.ret = TRUE
    /\ model.frame_count > 0
    /\ model.speakers[last_op.id].env_detector # EnvDetectorNew
    /\ model.speakers[last_op.id].speaker.installations = Installations
    /\ \E other \in DOMAIN model.speakers \ {last_op.id} :
          model.speakers[other].env_detector # EnvDetectorNew

(* ------------------- updating sounds (SpecUpdate, C22) ----------------- *)

\* The render calls of SpecUpdate stop at this frame count.
UpdateFrames == 2

\* The sounds handed to insert_sound: one frame of one channel, of either
\* source; the first render call drains the signal and the second finds it
\* exhausted.
UpdateSounds ==
    { Sound(source_id, 1, FALSE, TRUE, {1}, 0, Signal(1, 1, 1, FALSE)) : source_id \in SourceIds }

\* The closures handed to update_sound and update_sounds_with_source.
UpdateMutators == {"nudge", "mute"}

NextUpdate ==
    \/ \E id \in SoundIds, sound \in UpdateSounds : InsertSound(id, sound)
    \/ \E id \in SoundIds : RemoveSound(id)
    \/ \E id \in SoundIds, mutator \in UpdateMutators : UpdateSound(id, mutator)
    \/ \E source_id \in SourceIds, mutator \in UpdateMutators :
            UpdateSoundsWithSource(source_id, mutator)
    \/ /\ model.frame_count + 1 <= UpdateFrames
       /\ Render(1, 1, << >>, {}, 0)

SpecUpdate == Init /\ [][NextUpdate]_vars

\* C22: update_sound(id, f) applies f once to the sound under that id and
\* returns true, or returns false and changes nothing when the id is
\* unknown; update_sounds_with_source(src, f) applies f once to each sound
\* whose source id is src, to no other sound, and returns how many it was
\* applied to.  Neither adds, removes or re-keys a sound, touches anything of
\* a sound's entry but the sound itself, changes another field of the model
\* or sends a message.
C22_UpdatesApplyOnce ==
    [][ /\ (last_op'.name \in {"update_sound", "update_sounds_with_source"}) =>
            /\ chans' = ClearLogs(chans)
            /\ chans'.gui_log = << >>
            /\ chans'.osc_log = << >>
            /\ chans'.soundscape_log = << >>
            /\ DOMAIN model'.sounds = DOMAIN model.sounds
            /\ [model' EXCEPT !.sounds = model.sounds] = model
            /\ \A id \in DOMAIN model.sounds :
                  [model'.sounds[id] EXCEPT !.sound = model.sounds[id].sound] = model.sounds[id]
        /\ (last_op'.name = "update_sound") =>
            LET id == last_op'.id
                f == last_op'.mutator
            IN  IF id \in DOMAIN model.sounds
                THEN /\ last_op'.ret = TRUE
                     /\ model'.sounds[id].sound = ApplyMutator(f, model.sounds[id].sound)
                     /\ \A other \in DOMAIN model.sounds \ {id} :
                           model'.sounds[other] = model.sounds[other]
                ELSE /\ last_op'.ret = FALSE
                     /\ model' = model
        /\ (last_op'.name = "update_sounds_with_source") =>
            LET src == last_op'.source_id
                f == last_op'.mutator
                hit == { id \in DOMAIN model.sounds : model.sounds[id].sound.source_id = src }
            IN  /\ last_op'.ret = Cardinality(hit)
                /\ \A id \in hit :
                      model'.sounds[id].sound = ApplyMutator(f, model.sounds[id].sound)
                /\ \A id \in DOMAIN model.sounds \ hit :
                      model'.sounds[id] = model.sounds[id]
    ]_vars

\* update_sounds_with_source has nudged the one sound of its source, after a
\* render call, and left the sound of the other source where it was.
C22_OneOfTwoNudged ==
    /\ last_op.name = "update_sounds_with_source"
    /\ last_op.mutator = "nudge"
    /\ last_op.ret = 1
    /\ model.frame_count > 0
    /\ DOMAIN model.sounds = SoundIds
    /\ \E id \in SoundIds :
          /\ model.sounds[id].sound.source_id = last_op.source_id
          /\ model.sounds[id].sound.position = 2
          /\ \A other \in SoundIds \ {id} :
                /\ model.sounds[other].sound.source_id # last_op.source_id
                /\ model.sounds[other].sound.position = 0

(* ------------------- removed speakers (C23) ---------------------------- *)

\* C23: remove_speaker discards the speaker's detector history: after
\* remove_speaker(id) the id is no longer in the model, the rest of the
\* model is as before, and insert_speaker(id, s) on the model so left gives
\* the entry it gives for an id never inserted, both detectors in their
\* initial state, and returns None.
C23_RemoveForgetsDetectors ==
    [][ (last_op'.name = "remove_speaker") =>
          LET id == last_op'.id
          IN  /\ id \notin DOMAIN model'.speakers
              /\ last_op'.ret = IF id \in DOMAIN model.speakers
                                THEN Some(model.speakers[id].speaker) ELSE None
              /\ \A other \in DOMAIN model.speakers \ {id} :
                    /\ other \in DOMAIN model'.speakers
                    /\ model'.speakers[other] = model.speakers[other]
              /\ [model' EXCEPT !.speakers = model.speakers] = model
              /\ \A s \in AnalysisSpeakers :
                    LET again == insert_speaker(model', chans', id, s)
                        first == insert_speaker(ModelNew, ChannelsNew, id, s)
                    IN  /\ again.ret = None
                        /\ again.model.speakers[id] = first.model.speakers[id]
                        /\ again.model.speakers[id].env_detector = EnvDetectorNew
                        /\ again.model.speakers[id].fft_detector = FftDetectorNew
                        /\ again.model.speakers[id].speaker = s
    ]_vars

\* A speaker has been removed after a render call that fed the speakers
\* their sound, while the other speaker keeps what it has heard.
C23_RemovedAfterFeeding ==
    /\ last_op.name = "remove_speaker"
    /\ IsSome(last_op.ret)
    /\ model.frame_count > 0
    /\ last_op.id \notin DOMAIN model.speakers
    /\ \E other \in DOMAIN model.speakers : model.speakers[other].env_detector # EnvDetectorNew

(* ------------------- silenced sounds running out (C24) ----------------- *)

\* C24: a playing sound that is muted or left out by the solo set, and whose
\* signal yields fewer than buffer_frames * channels samples in a render
\* call, is removed from the model in that same call, with one End message
\* toward the GUI (carrying the sound with its signal drained) and one
\* remove_active_sound update toward the soundscape thread, the End message
\* following the sound's Update message: the same removal and the same two
\* notifications an audible sound gets.  A silenced sound whose signal
\* yields all the samples asked for stays, with neither notification.
C24_SilencedSoundIsEvicted ==
    [][(last_op'.name = "render" /\ ~aborted') =>
          \A id \in DOMAIN model.sounds :
              LET active == model.sounds[id]
                  sound == active.sound
                  left == sound.signal.samples_left
                  num_samples == last_op'.n_frames * sound.channels
                  yielded == IF left = Infinite THEN num_samples ELSE Min(num_samples, left)
                  ends == { k \in 1..Len(chans'.gui_log) :
                              chans'.gui_log[k].kind = "End" /\ chans'.gui_log[k].id = id }
                  updates == { k \in 1..Len(chans'.gui_log) :
                                 chans'.gui_log[k].kind = "Update" /\ chans'.gui_log[k].id = id }
                  audibly == render([model EXCEPT !.soloed = {},
                                                  !.sounds[id].sound.muted = FALSE],
                                    ClearLogs(chans), last_op'.n_frames, last_op'.n_channels,
                                    Ascending(DOMAIN model.sounds), last_op'.sp_order,
                                    last_op'.seek_fail, last_op'.entry)
              IN  (sound.playing /\ ~Audible(model, sound)) =>
                      IF yielded < num_samples
                      THEN /\ id \notin DOMAIN model'.sounds
                           /\ Cardinality(ends) = 1
                           /\ RemoveActiveCount(chans', id) = 1
                           /\ \A k \in ends :
                                 /\ chans'.gui_log[k].sound.sound.signal.samples_left = 0
                                 /\ chans'.gui_log[k].sound.channel_detectors
                                       = active.channel_detectors
                                 /\ \A u \in updates : u < k
                           /\ ~sound.signal.continuous =>
                                 /\ id \notin DOMAIN audibly.model.sounds
                                 /\ EndCount(audibly.chans, id) = 1
                                 /\ RemoveActiveCount(audibly.chans, id) = 1
                      ELSE /\ id \in DOMAIN model'.sounds
                           /\ ends = {}
                           /\ RemoveActiveCount(chans', id) = 0
    ]_vars

\* A muted two-channel sound with one frame left met a render call of two
\* frames, with a speaker to play on: the sound is gone, its End message and
\* its soundscape update were sent, and the buffer is silent.
C24_MutedSoundEvicted ==
    /\ last_op.name = "render"
    /\ last_op.n_frames = 2
    /\ ~aborted
    /\ model.sounds = EmptyMap
    /\ model.speakers # EmptyMap
    /\ AllZero(buffer)
    /\ EndCount(chans, 1) = 1
    /\ RemoveActiveCount(chans, 1) = 1
    /\ \E k \in 1..Len(chans.gui_log) :
          /\ chans.gui_log[k].kind = "End"
          /\ chans.gui_log[k].sound.sound.muted
          /\ chans.gui_log[k].sound.sound.playing
          /\ chans.gui_log[k].sound.sound.channels = 2
          /\ chans.gui_log[k].sound.sound.signal.length = 2

(* ------------------- speakers outside the buffer (C25) ----------------- *)

\* C25: a render call skips every speaker whose channel is not below the
\* buffer's channel count: the speaker's entry (detectors included) is left
\* as it was, no SpeakerUpdate message is attempted for it, an
\* installation's message lists as many readings as the installation has
\* speakers that were not skipped, and the call does what it
\* does on the model without these speakers: the same buffer, the same
\* messages, the same sounds and the same other speakers.  Every sample
\* index the call reads or writes is a frame and a channel of the buffer.
C25_OutOfRangeSpeakerSkipped ==
    [][(last_op'.name = "render" /\ ~aborted') =>
          LET n_channels == last_op'.n_channels
              skipped == { s \in DOMAIN model.speakers :
                              model.speakers[s].speaker.channel >= n_channels }
              InRange(s) == s \notin skipped
              without == render([model EXCEPT !.speakers =
                                    [s \in DOMAIN model.speakers \ skipped |-> model.speakers[s]]],
                                ClearLogs(chans), last_op'.n_frames, n_channels,
                                Ascending(DOMAIN model.sounds),
                                SelectSeq(last_op'.sp_order, InRange),
                                last_op'.seek_fail, last_op'.entry)
          IN  /\ DOMAIN model'.speakers = DOMAIN model.speakers
              /\ \A s \in skipped :
                    /\ model'.speakers[s] = model.speakers[s]
                    /\ \A k \in 1..Len(chans'.gui_log) :
                          ~(chans'.gui_log[k].kind = "SpeakerUpdate" /\ chans'.gui_log[k].id = s)
              /\ \A k \in 1..Len(chans'.osc_log) :
                    Len(chans'.osc_log[k].speakers)
                        = Cardinality({ s \in DOMAIN model.speakers \ skipped :
                                          chans'.osc_log[k].installation
                                              \in model.speakers[s].speaker.installations })
              /\ DOMAIN buffer' = 0..(last_op'.n_frames - 1)
              /\ \A f \in DOMAIN buffer' : DOMAIN buffer'[f] = 0..(n_channels - 1)
              /\ ~without.aborted
              /\ without.buffer = buffer'
              /\ without.chans = chans'
              /\ without.model.sounds = model'.sounds
              /\ \A s \in DOMAIN model.speakers \ skipped :
                    without.model.speakers[s] = model'.speakers[s]
    ]_vars

\* A one-channel render call met the speaker of channel 1, which an earlier
\* two-channel call had fed, next to the speaker of channel 0: the one
\* installation message lists one reading.
C25_SkippedNextToFed ==
    /\ last_op.name = "render"
    /\ last_op.n_channels = 1
    /\ model.frame_count = 2
    /\ DOMAIN model.speakers = SpeakerIds
    /\ DOMAIN model.sounds # {}
    /\ model.speakers[2].speaker.channel = 1
    /\ model.speakers[2].env_detector # EnvDetectorNew
    /\ model.speakers[1].env_detector # EnvDetectorNew
    /\ ~AllZero(buffer)
    /\ Len(chans.osc_log) = 1
    /\ Len(chans.osc_log[1].speakers) = 1

(* ------------------- the messages of one sound (C26) ------------------- *)

\* The positions in the GUI log of the messages of kind `kind` about sound
\* `id`.
SoundMessages(ch, kind, id) ==
    { k \in 1..Len(ch.gui_log) :
        /\ ch.gui_log[k].kind = kind
        /\ "id" \in DOMAIN ch.gui_log[k]
        /\ ch.gui_log[k].id = id }

\* C26: for each sound id the GUI messages attempted over a run are a Start
\* (at insert_sound), then Update and UpdateChannel messages, then at most
\* one End, and nothing more until the id is inserted again.  Step by step:
\* a Start for an id is attempted by insert_sound of that id, once, and by
\* no other operation; Update and UpdateChannel messages are attempted only
\* for an id the model holds when the operation begins, which it does only
\* from its Start on; an End is attempted at most once in an operation, only
\* for an id the model holds, it is the last message about the id in that
\* operation, and the model no longer holds the id after it; for an id the
\* model does not hold nothing is attempted but the Start of its insertion.
C26_MessagesFollowLifetime ==
    [][ \A id \in SoundIds :
          LET starts == SoundMessages(chans', "Start", id)
              updates == SoundMessages(chans', "Update", id)
                            \cup SoundMessages(chans', "UpdateChannel", id)
              ends == SoundMessages(chans', "End", id)
              inserting == last_op'.name = "insert_sound" /\ last_op'.id = id
              held == id \in DOMAIN model.sounds
          IN  /\ Cardinality(starts) = (IF inserting THEN 1 ELSE 0)
              /\ inserting => (id \in DOMAIN model'.sounds /\ updates = {} /\ ends = {})
              /\ ~held => (updates = {} /\ ends = {})
              /\ Cardinality(ends) <= 1
              /\ ends # {} => /\ id \notin DOMAIN model'.sounds
                              /\ \A e \in ends : \A u \in updates : u < e
              /\ (held /\ ~inserting /\ id \notin DOMAIN model'.sounds) => Cardinality(ends) = 1
              /\ (id \in DOMAIN model'.sounds /\ ~held) => inserting
    ]_vars

\* The second render call found both sounds exhausted: for each of them an
\* Update message and then the End message, and both are gone.
C26_TwoSoundsEnded ==
    /\ last_op.name = "render"
    /\ model.frame_count = 2
    /\ model.sounds = EmptyMap
    /\ \A id \in SoundIds :
          /\ Cardinality(SoundMessages(chans, "Update", id)) = 1
          /\ Cardinality(SoundMessages(chans, "End", id)) = 1

(* ------------------- the scratch lists (C27) --------------------------- *)

\* C27: between render calls the scratch state is empty: after every
\* operation, a render call in particular, exhausted_sounds is empty and so
\* is the analysis list of every installation.  Within a render call the
\* sound loop records each sound id as exhausted at most once, every
\* recorded id is in the sounds map when the drain evicts it (the call does
\* not abort), and the ids evicted are exactly the ids recorded.
C27_ScratchEmptyBetweenCalls ==
    [][ /\ model.exhausted_sounds = << >>
        /\ \A inst \in DOMAIN model.installation_analyses :
              model.installation_analyses[inst] = << >>
        /\ model'.exhausted_sounds = << >>
        /\ DOMAIN model'.installation_analyses = Installations
        /\ \A inst \in Installations : model'.installation_analyses[inst] = << >>
        /\ (last_op'.name = "render") =>
              LET loop == RenderSounds(
                              [sounds |-> model.sounds,
                               buffer |-> Silence(FilledBuffer(last_op'.n_frames,
                                                               last_op'.n_channels,
                                                               last_op'.entry)),
                               exhausted_sounds |-> model.exhausted_sounds,
                               chans |-> ClearLogs(chans),
                               aborted |-> FALSE,
                               mix |-> << >>],
                              Ascending(DOMAIN model.sounds), model, last_op'.n_frames,
                              last_op'.n_channels, last_op'.sp_order, last_op'.seek_fail)
                  recorded == loop.exhausted_sounds
              IN  /\ ~aborted'
                  /\ \A i, j \in 1..Len(recorded) : recorded[i] = recorded[j] => i = j
                  /\ \A i \in 1..Len(recorded) : recorded[i] \in DOMAIN loop.sounds
                  /\ DOMAIN model'.sounds
                        = DOMAIN model.sounds \ { recorded[i] : i \in 1..Len(recorded) }
                  /\ \A id \in SoundIds :
                        EndCount(chans', id)
                            = Cardinality({ i \in 1..Len(recorded) : recorded[i] = id })
    ]_vars

\* A render call has evicted an exhausted sound and reported the speaker of
\* its installation, and the scratch lists are empty again.
C27_EvictedAndReported ==
    /\ last_op.name = "render"
    /\ ~aborted
    /\ EndCount(chans, 1) = 1
    /\ model.sounds = EmptyMap
    /\ model.speakers # EmptyMap
    /\ Len(chans.osc_log) = 1
    /\ Len(chans.osc_log[1].speakers) = 1
    /\ model.exhausted_sounds = << >>
    /\ \A inst \in Installations : model.installation_analyses[inst] = << >>

(* ------------------- what render changes (SpecSettings, C28) ----------- *)

\* The render calls of SpecSettings stop at this frame count.
SettingsFrames == 2

\* The sounds handed to insert_sound: one frame of one channel; the first
\* render call that pulls from it drains the signal and the next finds it
\* exhausted.
SettingsSounds == { Sound(1, 1, FALSE, TRUE, {1}, 0, Signal(1, 1, 1, FALSE)) }

\* The speaker handed to insert_speaker.
SettingsSpeakers == { Speaker(0, 0, {1}) }

\* The values written to master_volume and dbap_rolloff_db.
SettingsValues == {1, 2}

NextSettings ==
    \/ \E sound \in SettingsSounds : InsertSound(1, sound)
    \/ \E mutator \in {"mute", "nudge"} : UpdateSound(1, mutator)
    \/ \E speaker \in SettingsSpeakers : InsertSpeaker(1, speaker)
    \/ InsertSpeakerInstallation(1, 2)
    \/ \E volume \in SettingsValues : SetMasterVolume(volume)
    \/ \E rolloff_db \in SettingsValues : SetDbapRolloffDb(rolloff_db)
    \/ \E sources \in {{}, {2}} : SetSoloed(sources)
    \/ \E sp_order \in Orders(DOMAIN model.speakers) :
            /\ model.frame_count + 1 <= SettingsFrames
            /\ Render(1, 1, sp_order, {}, 0)

SpecSettings == Init /\ [][NextSettings]_vars

\* C28: a render call changes the model only by advancing signals and
\* detector states, removing the sounds exhausted in this call (those whose
\* End message it attempts) and advancing the frame counter.  It adds no
\* sound and no speaker, removes no speaker and no other sound, and leaves
\* master_volume, dbap_rolloff_db, soloed, every speaker's description and,
\* of every sound it keeps, everything but the position of its signal and
\* its channel detectors as they were.
C28_RenderFrame ==
    [][(last_op'.name = "render" /\ ~aborted') =>
          /\ model'.master_volume = model.master_volume
          /\ model'.dbap_rolloff_db = model.dbap_rolloff_db
          /\ model'.soloed = model.soloed
          /\ model'.frame_count = (model.frame_count + last_op'.n_frames) % FrameCountModulus
          /\ [model' EXCEPT !.sounds = model.sounds, !.speakers = model.speakers,
                            !.frame_count = model.frame_count] = model
          /\ DOMAIN model'.speakers = DOMAIN model.speakers
          /\ \A s \in DOMAIN model.speakers :
                /\ model'.speakers[s].speaker = model.speakers[s].speaker
                /\ [model'.speakers[s] EXCEPT !.env_detector = model.speakers[s].env_detector,
                                              !.fft_detector = model.speakers[s].fft_detector]
                      = model.speakers[s]
          /\ DOMAIN model'.sounds \subseteq DOMAIN model.sounds
          /\ \A id \in DOMAIN model.sounds :
                IF id \in DOMAIN model'.sounds
                THEN LET before == model.sounds[id]
                         after == model'.sounds[id]
                     IN  /\ EndCount(chans', id) = 0
                         /\ after.sound.position = before.sound.position
                         /\ after.sound.volume = before.sound.volume
                         /\ after.sound.muted = before.sound.muted
                         /\ after.sound.installations = before.sound.installations
                         /\ [after.sound EXCEPT !.signal = before.sound.signal] = before.sound
                         /\ [after.sound.signal EXCEPT !.samples_left = before.sound.signal.samples_left]
                               = before.sound.signal
                         /\ [after EXCEPT !.sound = before.sound,
                                          !.channel_detectors = before.channel_detectors]
                               = before
                ELSE /\ EndCount(chans', id) = 1
                     /\ model.sounds[id].sound.playing
                     /\ model.sounds[id].sound.signal.samples_left # Infinite
                     /\ model.sounds[id].sound.signal.samples_left
                           < last_op'.n_frames * model.sounds[id].sound.channels
    ]_vars

\* The second render call, with settings away from their defaults, fed the
\* speaker and evicted the sound, and the settings and the speaker's
\* description stand.
C28_EvictedUnderSettings ==
    /\ last_op.name = "render"
    /\ ~aborted
    /\ model.frame_count = 2
    /\ model.master_volume = 2
    /\ model.dbap_rolloff_db = 2
    /\ model.soloed = {2}
    /\ model.sounds = EmptyMap
    /\ EndCount(chans, 1) = 1
    /\ 1 \in DOMAIN model.speakers
    /\ model.speakers[1].speaker.installations = Installations
    /\ model.speakers[1].env_detector # EnvDetectorNew

(* ------------------- bounding boxes (SpecBox, C29) --------------------- *)

\* The longest sequence of points handed to from_points.
MaxPoints == 3

\* The coordinates of the points, on both sides of zero.
BoxCoords == -1..1

BoxPoints == [x : BoxCoords, y : BoxCoords]

PointSeqs == UNION { [1..n -> BoxPoints] : n \in 0..MaxPoints }

InitBox ==
    /\ model = ModelNew
    /\ chans = ChannelsNew
    /\ buffer = << >>
    /\ last_op = [name |-> "new"]
    /\ aborted = FALSE
    /\ points \in PointSeqs
    /\ soundscape_editor = SoundscapeEditorNew(StoredDefault)

NextBox == FromPoints

SpecBox == InitBox /\ [][NextBox]_vars

\* C29: BoundingBox::from_points returns None exactly when the sequence of
\* points is empty; otherwise the tightest box that encloses the points:
\* left is the least x, right the greatest x, bottom the least y and top the
\* greatest y among them, so left <= right and bottom <= top, every point
\* lies inside, and the points in any other order give the same box.
C29_TightestBox ==
    (last_op.name = "from_points") =>
        LET ret == last_op.ret
            xs == { points[k].x : k \in 1..Len(points) }
            ys == { points[k].y : k \in 1..Len(points) }
        IN  /\ (ret = None) <=> (points = << >>)
            /\ (points # << >>) =>
                  /\ IsSome(ret)
                  /\ ret[1].left \in xs /\ \A x \in xs : ret[1].left <= x
                  /\ ret[1].right \in xs /\ \A x \in xs : x <= ret[1].right
                  /\ ret[1].bottom \in ys /\ \A y \in ys : ret[1].bottom <= y
                  /\ ret[1].top \in ys /\ \A y \in ys : y <= ret[1].top
                  /\ ret[1].left <= ret[1].right
                  /\ ret[1].bottom <= ret[1].top
                  /\ \A k \in 1..Len(points) :
                        /\ ret[1].left <= points[k].x /\ points[k].x <= ret[1].right
                        /\ ret[1].bottom <= points[k].y /\ points[k].y <= ret[1].top
            /\ \A order \in Orders(1..Len(points)) :
                  from_points([k \in 1..Len(points) |-> points[order[k]]]) = ret

\* The box of three points of which the first lies strictly inside the box
\* the other two span.
C29_FirstPointInside ==
    /\ last_op.name = "from_points"
    /\ Len(points) = 3
    /\ IsSome(last_op.ret)
    /\ last_op.ret[1].left < points[1].x /\ points[1].x < last_op.ret[1].right
    /\ last_op.ret[1].bottom < points[1].y /\ points[1].y < last_op.ret[1].top

(* ------------------- the soundscape editor (SpecEditor, C30) ----------- *)

\* The most clicks on the "+" button in one pass, and the most events of the
\* text box in one pass.
MaxClicks == 2

MaxTextEvents == 2

\* What Stored::load may return with next_group_id above every stored id.
EditorStored ==
    { stored \in [groups : { [id \in ids |-> Unnamed] : ids \in SUBSET {0, 1} },
                  next_group_id : 0..2] :
        \A id \in DOMAIN stored.groups : id < stored.next_group_id }

\* The events of the text box.
TextBoxEvents == { [kind |-> "Update", name |-> name] : name \in TypedNames } \cup { [kind |-> "Enter"] }

TextBoxEventSeqs == UNION { [1..n -> TextBoxEvents] : n \in 0..MaxTextEvents }

InitEditor ==
    /\ model = ModelNew
    /\ chans = ChannelsNew
    /\ buffer = << >>
    /\ last_op = [name |-> "new"]
    /\ aborted = FALSE
    /\ points = << >>
    /\ soundscape_editor \in { SoundscapeEditorNew(stored) : stored \in EditorStored }

NextEditor ==
    \E toggle \in BOOLEAN, clicks \in 0..MaxClicks :
        LET listed == DOMAIN AddGroups([editor |-> soundscape_editor, added |-> << >>],
                                       clicks).editor.groups
            choices == {None} \cup { Some(id) : id \in listed }
        IN  \E selection \in choices :
                \E remove \in choices :
                    \E events \in TextBoxEventSeqs :
                        Set(toggle, clicks, selection, remove, events)

SpecEditor == InitEditor /\ [][NextEditor]_vars

\* C30: from a state where next_group_id is above every group id, after any
\* passes of `set` (groups added, selected, removed, renamed): the selected
\* group, if there is one, is a group of the map, and a pass that removes
\* the selected group leaves nothing selected; every id in the map is below
\* next_group_id, which never decreases; every group added takes an id at or
\* above the next_group_id the pass began with and below the one it ends
\* with, so an id that no group of the map has and that no group added or
\* stored before ever had (all those were below next_group_id), each added
\* id is taken once, and every group of the map that the pass does not
\* remove is still there.
C30_SelectionAndFreshIds ==
    [][ LET before == soundscape_editor
            after == soundscape_editor'
            added == IF last_op'.name = "set" THEN last_op'.added ELSE << >>
            removed == IF last_op'.name = "set" THEN last_op'.removed ELSE None
        IN  /\ \A id \in DOMAIN before.groups : id < before.next_group_id
            /\ IsSome(before.selected) => before.selected[1].id \in DOMAIN before.groups
            /\ \A id \in DOMAIN after.groups : id < after.next_group_id
            /\ IsSome(after.selected) => after.selected[1].id \in DOMAIN after.groups
            /\ IsSome(removed) =>
                  /\ removed[1] \notin DOMAIN after.groups
                  /\ ~(IsSome(after.selected) /\ after.selected[1].id = removed[1])
            /\ after.next_group_id >= before.next_group_id
            /\ after.next_group_id = before.next_group_id + Len(added)
            /\ \A k \in 1..Len(added) :
                  /\ added[k] \notin DOMAIN before.groups
                  /\ added[k] >= before.next_group_id
                  /\ added[k] < after.next_group_id
                  /\ \A j \in 1..Len(added) : added[j] = added[k] => j = k
            /\ DOMAIN after.groups
                  = (DOMAIN before.groups \cup { added[k] : k \in 1..Len(added) })
                        \ { removed[k] : k \in 1..Len(removed) }
    ]_vars

\* A pass has added a group and removed another group, which a selection
\* event of the same pass had selected: nothing is selected, and an earlier
\* id is free while the ids above it are taken.
C30_AddedAndRemovedSelected ==
    /\ last_op.name = "set"
    /\ Len(last_op.added) = 1
    /\ IsSome(last_op.removed)
    /\ last_op.removed[1] < last_op.added[1]
    /\ soundscape_editor.selected = None
    /\ last_op.added[1] \in DOMAIN soundscape_editor.groups
    /\ soundscape_editor.next_group_id = GroupIdMax

====
